---- MODULE Spec2Model ----
(***************************************************************************)
(* Job dispatch and job lifecycle of the service platform.                 *)
(*                                                                         *)
(* The state is the content of the SQLite tables masters, jobs and         *)
(* transactions (src/main.py, init_database) and the master bot's chat     *)
(* state: for each master and job, the card of the job in the master's     *)
(* chat and the assign request made from it (telegram_master_bot.py).      *)
(*                                                                         *)
(* Every API handler is an `async def` without an await inside and does    *)
(* its writes in one SQLite transaction, so one handler is one atomic      *)
(* step.  A bot handler awaits the HTTP call, so it is two steps: the      *)
(* request is sent, and (after the API handled it) the reply is shown.     *)
(*                                                                         *)
(* Row ids are AUTOINCREMENT: the job with id j is jobs[j].  A TIMESTAMP   *)
(* column is modelled by whether it is set (TRUE) or NULL (FALSE).  A job  *)
(* row carries the columns the handlers test or write in the lifecycle;    *)
(* money is counted in kopecks, ratings in tenths.                         *)
(*                                                                         *)
(* sink_calls are the calls the notification sink (google_sync.py) has     *)
(* received.  factors and quote are the PriceFactors of a pricing request  *)
(* and the quote PriceCalculator.calculate returned for them               *)
(* (price_calculator.py); request is the text and category hint an         *)
(* estimate was asked for, templates what has changed in the module's      *)
(* table QUICK_TEMPLATES since it was loaded.  master_bot is what the      *)
(* master bot holds for each Telegram user: the master record it cached    *)
(* (master_cache), the state and the phone of a registration dialogue      *)
(* (user_data), and the last message it sent to the user; client_bot is    *)
(* the state, the user_data and the last message of a dialogue of the      *)
(* client bot.                                                             *)
(***************************************************************************)
EXTENDS Integers, Sequences, FiniteSets, TLC

VARIABLES masters, jobs, transactions, cards, sink_calls, factors, quote,
          request, templates, master_bot, client_bot

vars == <<masters, jobs, transactions, cards, sink_calls, factors, quote,
          request, templates, master_bot, client_bot>>

\* what the lifecycle and bot steps leave alone: the calls made to the
\* notification sink, the pricing request, the pricing templates and the
\* sessions of the two bots
outside == <<sink_calls, factors, quote, request, templates, master_bot,
             client_bot>>

(* ------------------------------ bounds -------------------------------- *)

\* masters registered in the directory
NumMasters == 2
\* rows the jobs table may hold
MaxJobs == 1
\* rows the transactions table may hold while the jobs go through their
\* lifecycle
MaxTx == 1
\* rows the transactions table may hold where payments are what is tried
MaxPayments == 2
\* rows the jobs table may hold while masters compete for jobs in the bot
MaxRaceJobs == 2
\* outlets, switches and chandeliers a priced job may have of each
MaxPoints == 1
\* rows the jobs table may hold while the notification sink is in use
MaxSinkJobs == 2
\* payment amounts tried above FeeBase, in kopecks
MaxFeeSteps == 12
\* the most outlets of a job a volume discount is asked for
MaxDiscountPoints == 21
\* the most times a description names an item of one kind
MaxWords == 3
\* the most kopecks of the small payments, and above FeeBase, that are split
MaxSplitSteps == 6

(* ----------------------------- constants ------------------------------ *)

\* SQL NULL / Python None / a missing master
NULL == 0

MasterIds == 1..NumMasters

\* job ids a caller may name: the id of a row, or (while the table is not
\* full) an id no row has yet
JobIdInputs == 1..MaxJobs

\* the statuses the generic status update lets through (main.py:2221)
ValidStatuses == {"pending", "accepted", "in_progress", "completed", "cancelled"}

\* status values a caller may send; the last one is written by master_depart
\* but is no member of the list above
StatusInputs == ValidStatuses \cup {"on-the-way"}

\* statuses the jobs table can hold
AllStatuses == ValidStatuses \cup {"on-the-way", "arrived"}

\* the city process_client_request searches in (main.py:2246)
DefaultCity == "Moskva"

\* categories a client submits
RequestCategories == {"electrical", "plumbing"}

\* category strings a lookup may be made with: ClientRequest.category and the
\* path parameter of get_available_masters are any str
LookupCategories == RequestCategories \cup {"electric"}

\* cities masters register in and lookups name
Cities == {DefaultCity, "Kaliningrad"}

\* specialization lists masters register with
SpecLists == {<<"electrical">>, <<"plumbing">>, <<"electrical", "plumbing">>}

\* values of the rating column (REAL DEFAULT 5.0, written by no handler), in
\* tenths
Ratings == {45, 50}

\* The notification sink as a call meets it:
\*   "disabled"      GOOGLE_SYNC_AVAILABLE is False (main.py:23, this build)
\*   "unconfigured"  enabled, google_integration is None
\*   "ok"            enabled and configured, the call succeeds
\*   "raises"        enabled and configured, the call raises
SinkStates == {"disabled", "unconfigured", "ok", "raises"}

\* master ids a caller may name: the id of a row, or an id no row has
MasterIdInputs == 1..(NumMasters + 1)

\* Telegram user ids (update.effective_user.id) of the master bot's users
TelegramUsers == {1234567890, 987654321}

\* no master record (None), and what the master bot holds for a user it
\* has not dealt with: master_cache has no entry, no registration dialogue
\* is open, nothing was sent; the bot starts with no sessions
NoMaster == [id |-> NULL, terminal_active |-> FALSE]
NoSession == [master |-> NoMaster, state |-> "END", reg_phone |-> "", reply |-> "none"]
NoSessions == <<>>

\* the session of user u among sessions, and the sessions with that of u
\* replaced
SessionOf(sessions, u) ==
    IF u \in DOMAIN sessions THEN sessions[u] ELSE NoSession
WithSession(sessions, u, session) ==
    [v \in DOMAIN sessions \cup {u} |-> IF v = u THEN session ELSE sessions[v]]

\* phones a registration is tried with: a mobile number as the bot asks for
\* it, the key the lookup by Telegram id makes of the first user, and text
\* of the length of a mobile number with a letter in it
MasterPhones == {"+79001234567", "+1234567890", "+7900123456a"}

\* the client bot before a dialogue: user_data is empty, nothing was sent
NoDialogue == [state |-> "END", reply |-> "none", user_data |-> <<>>]

\* what a user types in a dialogue of the client bot
NamesTyped == {"Q", "Ivan"}
PhonesTyped == {"+79001234567", "+7900123456a", "89001234567"}
ProblemsTyped == {"net sveta", "net sveta v dome"}
AddressesTyped == {"dom", "ul. Mira 1"}
AnswersTyped == {"Da", "net"}

\* the client of a submission: name and phone
ClientName == "Ivan"
ClientPhone == "+79110000001"

\* payment amounts, in kopecks (1000.00 roubles)
Amounts == {100000}

\* Payment amounts the fee split is tried on, in kopecks: 1000.00 roubles and
\* the amounts just above 123.40.  Left out are the amounts of which a fee is
\* an exact half kopeck: there round() goes by the binary value of the float
\* product, which RoundDiv does not follow.
FeeBase == 12340
FeeAmounts ==
    Amounts \cup { a \in (FeeBase + 1)..(FeeBase + MaxFeeSteps) :
                      a % 50 # 25 /\ a % 200 # 100 }

\* Payment amounts the split is summed up for, in kopecks: the smallest
\* ones and the ones just above 123.40, without those of which a fee is an
\* exact half kopeck.
SplitAmounts ==
    { a \in (1..MaxSplitSteps) \cup ((FeeBase + 1)..(FeeBase + MaxSplitSteps)) :
         a % 50 # 25 /\ a % 200 # 100 }

\* cards show_new_jobs sends at most (telegram_master_bot.py:209)
MaxCards == 5

(* --------------------------- master directory ------------------------- *)

\* p occurs in s: the SQL  s LIKE '%p%'  for a p of lower-case letters
Substr(p, s) ==
    \E i \in 0..(Len(s) - Len(p)) : SubSeq(s, i + 1, i + Len(p)) = p

\* json.dumps of the items of a list of strings from position i on
RECURSIVE JsonItems(_, _)
JsonItems(list, i) ==
    IF i > Len(list) THEN ""
    ELSE "\"" \o list[i] \o "\""
            \o (IF i < Len(list) THEN ", " ELSE "") \o JsonItems(list, i + 1)

\* json.dumps(master.specializations): the TEXT the masters table stores
JsonDumps(list) == "[" \o JsonItems(list, 1) \o "]"

\* specializations LIKE '%category%' on the stored JSON list
SpecLike(category, specializations) ==
    Substr(category, JsonDumps(specializations))

\* the row register_master inserts; rating, is_active and terminal_active
\* take their DEFAULT
register_master(specializations, city) ==
    [ specializations |-> specializations,
      city            |-> city,
      rating          |-> 50,
      is_active       |-> TRUE,
      terminal_active |-> FALSE ]

\* The directory after NumMasters registrations (register_master) and the
\* terminal activation of the odd ones (activate_terminal).
RegisteredMaster(m) ==
    [ register_master(IF m % 2 = 1 THEN <<"electrical">> ELSE <<"plumbing">>,
                      DefaultCity)
        EXCEPT !.terminal_active = (m % 2 = 1) ]

\* rows the query of find_available_master selects
Eligible(category, city) ==
    { m \in MasterIds :
        /\ masters[m].is_active
        /\ masters[m].terminal_active
        /\ masters[m].city = city
        /\ SpecLike(category, masters[m].specializations) }

\* ORDER BY rating DESC LIMIT 1: the values find_available_master may return.
\* Rows of equal rating come in an order SQL leaves open.
FindAvailableMaster(category, city) ==
    LET el == Eligible(category, city)
    IN  IF el = {} THEN {NULL}
        ELSE { m \in el : \A o \in el : masters[o].rating <= masters[m].rating }

(* ------------------------------ fee split ----------------------------- *)

\* n / d rounded to the nearest integer, halves to even (Python round)
RoundDiv(n, d) ==
    LET q == n \div d
        r == n % d
    IN  IF 2 * r > d \/ (2 * r = d /\ q % 2 = 1) THEN q + 1 ELSE q

\* a split that takes the commission of the whole amount
CalculatePlatformFeeOfTotal(amount) ==
    [ total               |-> amount,
      payment_gateway_fee |-> RoundDiv(2 * amount, 100),
      platform_commission |-> RoundDiv(25 * amount, 100),
      master_earnings     |-> RoundDiv(73 * amount, 100) ]

\* a split that leaves the gateway fee in the earnings
CalculatePlatformFeeOverGateway(amount) ==
    [ total               |-> amount,
      payment_gateway_fee |-> RoundDiv(2 * amount, 100),
      platform_commission |-> RoundDiv(98 * amount, 400),
      master_earnings     |-> RoundDiv(302 * amount, 400) ]

\* calculate_platform_fee, amounts in kopecks
CalculatePlatformFee(amount) ==
    [ total               |-> amount,
      payment_gateway_fee |-> RoundDiv(2 * amount, 100),
      platform_commission |-> RoundDiv(98 * amount, 400),
      master_earnings     |-> RoundDiv(294 * amount, 400) ]

(* ------------------------------- jobs --------------------------------- *)

JobIds == 1..Len(jobs)

JobExists(j) == j \in JobIds

\* a row that waits as pending whatever the lookup returned
NewJobPending(category, master_id) ==
    [ client_name              |-> ClientName,
      client_phone             |-> ClientPhone,
      category                 |-> category,
      status                   |-> "pending",
      master_id                |-> master_id,
      master_departed_at       |-> FALSE,
      master_arrived_at        |-> FALSE,
      client_phone_revealed    |-> FALSE,
      google_calendar_event_id |-> NULL ]

\* the row process_client_request inserts; the columns it does not name take
\* their DEFAULT
NewJob(category, master_id) ==
    [ client_name              |-> ClientName,
      client_phone             |-> ClientPhone,
      category                 |-> category,
      status                   |-> IF master_id # NULL THEN "accepted" ELSE "pending",
      master_id                |-> master_id,
      master_departed_at       |-> FALSE,
      master_arrived_at        |-> FALSE,
      client_phone_revealed    |-> FALSE,
      google_calendar_event_id |-> NULL ]

\* job ids a card in a chat may carry
CardJobIds == 1..MaxRaceJobs

NoContact == <<>>

\* no pricing request was made, no quote computed
NoFactors == [category |-> "none"]
NoQuote == [total_price |-> -1]

\* no estimate was asked for
NoRequest == [description |-> "", category |-> "none"]

(* --------------------------- API handlers ----------------------------- *)
(* A handler is a function of the tables and its inputs: the tables it     *)
(* leaves behind and the HTTP response (status code, and for               *)
(* master_arrive the contact in the body).                                 *)

\* POST /api/v1/ai/web-form, for each master the lookup may return
process_client_request(category) ==
    { [jobs |-> Append(jobs, NewJob(category, master_id)), code |-> 200] :
        master_id \in FindAvailableMaster(category, DefaultCity) }

\* the UPDATE of assign without its status condition
AssignMatchesAnyStatus(j) == JobExists(j)

\* the UPDATE of assign letting an accepted job be taken over
AssignMatchesNotStarted(j) ==
    JobExists(j) /\ jobs[j].status \in {"pending", "accepted"}

\* WHERE id = ? AND status = 'pending'
AssignMatches(j) == JobExists(j) /\ jobs[j].status = "pending"

\* POST /api/v1/jobs/{job_id}/assign
assign_job_to_master(j, m) ==
    IF AssignMatches(j)
    THEN [jobs |-> [jobs EXCEPT ![j].master_id = m, ![j].status = "accepted"],
          code |-> 200]
    ELSE [jobs |-> jobs, code |-> 400]

\* PATCH /api/v1/jobs/{job_id}/status  (UPDATE ... WHERE id = ?)
update_job_status(j, new_status) ==
    IF new_status \notin ValidStatuses
    THEN [jobs |-> jobs, code |-> 400]
    ELSE [jobs |-> IF JobExists(j)
                   THEN [jobs EXCEPT ![j].status = new_status]
                   ELSE jobs,
          code |-> 200]

\* WHERE id = ? AND master_id = ?
TerminalMatches(j, m) == JobExists(j) /\ jobs[j].master_id = m

\* PATCH /api/v1/terminal/jobs/{master_id}/status/{job_id}
terminal_update_job_status(m, j, new_status) ==
    IF new_status \notin ValidStatuses
    THEN [jobs |-> jobs, code |-> 422]
    ELSE IF TerminalMatches(j, m)
    THEN [jobs |-> [jobs EXCEPT ![j].status = new_status], code |-> 200]
    ELSE [jobs |-> jobs, code |-> 404]

\* the row process_payment inserts
NewTransaction(j, amount) ==
    LET fees == CalculatePlatformFee(amount)
    IN  [ job_id          |-> j,
          amount          |-> amount,
          payment_method  |-> "cash",
          platform_fee    |-> fees.platform_commission,
          master_earnings |-> fees.master_earnings,
          status          |-> "completed" ]

\* a payment that writes the paid amount over the price of the job
process_payment_repricing(j, amount) ==
    [ transactions |-> Append(transactions, NewTransaction(j, amount)),
      jobs         |-> IF JobExists(j)
                       THEN [jobs EXCEPT ![j].status = "completed",
                                         ![j].estimated_price = amount \div 100]
                       ELSE jobs,
      code         |-> 200 ]

\* POST /api/v1/terminal/payment/process
process_payment(j, amount) ==
    [ transactions |-> Append(transactions, NewTransaction(j, amount)),
      jobs         |-> IF JobExists(j)
                       THEN [jobs EXCEPT ![j].status = "completed"]
                       ELSE jobs,
      code         |-> 200 ]

\* a depart that hides the contact again for the new trip
master_depart_hiding(j) ==
    [ jobs |-> IF JobExists(j)
               THEN [jobs EXCEPT ![j].master_departed_at = TRUE,
                                 ![j].client_phone_revealed = FALSE,
                                 ![j].status = "on-the-way"]
               ELSE jobs,
      code |-> 200 ]

\* POST /api/v1/master/depart/{job_id}
master_depart(j) ==
    [ jobs |-> IF JobExists(j)
               THEN [jobs EXCEPT ![j].master_departed_at = TRUE,
                                 ![j].status = "on-the-way"]
               ELSE jobs,
      code |-> 200 ]

\* an arrive that refuses a job it has already marked arrived
master_arrive_once(js, j) ==
    IF j \in 1..Len(js) /\ js[j].status # "arrived"
    THEN [ jobs    |-> [js EXCEPT ![j].master_arrived_at = TRUE,
                                  ![j].client_phone_revealed = TRUE,
                                  ![j].status = "arrived"],
           code    |-> 200,
           contact |-> <<js[j].client_name, js[j].client_phone>> ]
    ELSE [ jobs |-> js, code |-> 404, contact |-> NoContact ]

\* POST /api/v1/master/arrive/{job_id}, on the tables js
master_arrive_on(js, j) ==
    IF j \in 1..Len(js)
    THEN [ jobs    |-> [js EXCEPT ![j].master_arrived_at = TRUE,
                                  ![j].client_phone_revealed = TRUE,
                                  ![j].status = "arrived"],
           code    |-> 200,
           contact |-> <<js[j].client_name, js[j].client_phone>> ]
    ELSE [ jobs |-> js, code |-> 404, contact |-> NoContact ]

master_arrive(j) == master_arrive_on(jobs, j)

\* sync_order_to_google(order_data) on a configured sink: the call the sink
\* receives; the event reference it returns is the number of the call
sync_order_to_google(sink, job_id, job) ==
    [ call         |-> "sync_order",
      outcome      |-> sink,
      job_id       |-> job_id,
      event_id     |-> IF sink = "ok" THEN Len(sink_calls) + 1 ELSE NULL,
      client_name  |-> job.client_name,
      client_phone |-> job.client_phone ]

\* google_integration.reveal_client_contact(event_id, name, phone)
reveal_client_contact(sink, event_id, client_name, client_phone) ==
    [ call         |-> "reveal_client_contact",
      outcome      |-> sink,
      job_id       |-> NULL,
      event_id     |-> event_id,
      client_name  |-> client_name,
      client_phone |-> client_phone ]

\* a submission whose sink error reaches the client and undoes the insert
process_client_request_strict(category, sink) ==
    { LET job_id == Len(jobs) + 1
          synced == sink \in {"ok", "raises"} /\ r.jobs[job_id].master_id # NULL
      IN  IF synced /\ sink = "raises"
          THEN [ jobs |-> jobs, code |-> 500, sink_calls |-> sink_calls ]
          ELSE [ jobs       |-> r.jobs,
                 code       |-> r.code,
                 sink_calls |-> IF synced
                                THEN Append(sink_calls,
                                        sync_order_to_google(sink, job_id, r.jobs[job_id]))
                                ELSE sink_calls ] :
        r \in process_client_request(category) }

\* POST /api/v1/ai/web-form with the sink in state sink: after the commit,
\* if GOOGLE_SYNC_AVAILABLE and master_id, the order is synced inside
\* try/except; google_sync_result is written to no table
process_client_request_sync(category, sink) ==
    { LET job_id == Len(jobs) + 1
          synced == sink \in {"ok", "raises"} /\ r.jobs[job_id].master_id # NULL
      IN  [ jobs       |-> r.jobs,
            code       |-> r.code,
            sink_calls |-> IF synced
                           THEN Append(sink_calls,
                                   sync_order_to_google(sink, job_id, r.jobs[job_id]))
                           ELSE sink_calls ] :
        r \in process_client_request(category) }

\* POST /api/v1/master/arrive/{job_id} with the sink in state sink: after the
\* commit, if GOOGLE_SYNC_AVAILABLE and the row read has an event reference,
\* the contact is revealed on that event inside try/except
master_arrive_sync(j, sink) ==
    LET r        == master_arrive(j)
        event_id == IF JobExists(j) THEN jobs[j].google_calendar_event_id ELSE NULL
        calling  == r.code = 200 /\ sink \in {"ok", "raises"} /\ event_id # NULL
    IN  [ jobs       |-> r.jobs,
          code       |-> r.code,
          contact    |-> r.contact,
          sink_calls |-> IF calling
                         THEN Append(sink_calls,
                                 reveal_client_contact(sink, event_id,
                                     jobs[j].client_name, jobs[j].client_phone))
                         ELSE sink_calls ]

(* ------------------------------ pricing ------------------------------- *)
(* Prices are the exact values of the floats price_calculator.py computes,  *)
(* kept as mixed numbers [int, num, den] = int + num/den, 0 <= num < den,   *)
(* in roubles.  estimated_hours is counted in half hours, distance_km in    *)
(* tenths of a kilometre, recorded prices in kopecks, recorded multipliers  *)
(* in hundredths, discounts in percent.  round() of a float whose exact     *)
(* value is a half goes by the binary value of the float, so rounding such  *)
(* a value has both neighbours as possible results.                         *)

Categories == {"electrical", "plumbing", "appliance", "general", "hvac", "emergency"}
\* the categories a quote is asked for that the price table does not have
UnknownCategories == {"unknown"}
Urgencies == {"normal", "urgent", "emergency"}
TimesOfDay == {"morning", "day", "evening", "night"}
Districts == {"center", "leningradsky", "moskovsky", "oktyabrsky", "baltika", "svetlogorsk"}

\* a price table whose lookup has nothing for a category it does not have
BASE_PRICES_or_nothing(category) ==
    CASE category = "electrical" -> 1500
      [] category = "plumbing"   -> 1800
      [] category = "appliance"  -> 2000
      [] category = "general"    -> 1200
      [] category = "hvac"       -> 3000
      [] category = "emergency"  -> 2500
      [] OTHER                   -> 0

\* BASE_PRICES[category]["base"], and the default of _get_base_price
BASE_PRICES(category) ==
    CASE category = "electrical" -> 1500
      [] category = "plumbing"   -> 1800
      [] category = "appliance"  -> 2000
      [] category = "general"    -> 1200
      [] category = "hvac"       -> 3000
      [] category = "emergency"  -> 2500
      [] OTHER                   -> 1500

\* the multiplier tables, as fractions <<p, q>>
URGENCY_MULTIPLIERS(urgency) ==
    CASE urgency = "normal"    -> <<1, 1>>
      [] urgency = "urgent"    -> <<15, 10>>
      [] urgency = "emergency" -> <<2, 1>>

TIME_MULTIPLIERS(time_of_day) ==
    CASE time_of_day = "morning" -> <<1, 1>>
      [] time_of_day = "day"     -> <<1, 1>>
      [] time_of_day = "evening" -> <<12, 10>>
      [] time_of_day = "night"   -> <<15, 10>>

DISTRICT_MULTIPLIERS(district) ==
    CASE district = "center"       -> <<1, 1>>
      [] district = "leningradsky" -> <<105, 100>>
      [] district = "moskovsky"    -> <<105, 100>>
      [] district = "oktyabrsky"   -> <<105, 100>>
      [] district = "baltika"      -> <<11, 10>>
      [] district = "svetlogorsk"  -> <<12, 10>>

\* PriceFactors(category) with the defaults of the dataclass
DefaultFactors(category) ==
    [ category         |-> category,
      urgency          |-> "normal",
      time_of_day      |-> "day",
      district         |-> "center",
      estimated_hours  |-> 2,
      complexity       |-> 1,
      materials_needed |-> FALSE,
      high_voltage     |-> FALSE,
      height_work      |-> FALSE,
      outdoors         |-> FALSE,
      outlets          |-> 0,
      switches         |-> 0,
      chandeliers      |-> 0,
      distance_km      |-> 0 ]

\* the names of the templates of typical jobs
TemplateNames == {"outlet_single", "outlet_block_3", "chandelier",
                  "washing_machine", "ac_install", "emergency_electrical"}

\* the table of templates as the module defines it
QUICK_TEMPLATES ==
    [name \in TemplateNames |->
        CASE name = "outlet_single" ->
                [DefaultFactors("electrical") EXCEPT !.outlets = 1]
          [] name = "outlet_block_3" ->
                [DefaultFactors("electrical") EXCEPT !.outlets = 3,
                                                     !.materials_needed = TRUE]
          [] name = "chandelier" ->
                [DefaultFactors("electrical") EXCEPT !.chandeliers = 1]
          [] name = "washing_machine" ->
                [DefaultFactors("appliance") EXCEPT !.estimated_hours = 3]
          [] name = "ac_install" ->
                [DefaultFactors("hvac") EXCEPT !.estimated_hours = 6,
                                               !.complexity = 3,
                                               !.height_work = TRUE]
          [] name = "emergency_electrical" ->
                [DefaultFactors("emergency") EXCEPT !.urgency = "emergency"]]

RECURSIVE Gcd(_, _)
Gcd(a, b) == IF b = 0 THEN a ELSE Gcd(b, a % b)

\* the integer k as a price
Whole(k) == [int |-> k, num |-> 0, den |-> 1]

\* x + k
Plus(x, k) == [x EXCEPT !.int = @ + k]

\* x * p / q
Times(x, p, q) ==
    LET g  == Gcd(p, q)
        pp == p \div g
        qq == q \div g
        a  == x.int * pp
        n  == (a % qq) * x.den + x.num * pp
        d  == x.den * qq
        r  == n % d
        h  == Gcd(r, d)
    IN  [int |-> (a \div qq) + (n \div d), num |-> r \div h, den |-> d \div h]

\* the results of rounding k + n/d halves to an integer, k an integer
Nearest(k, n, d) ==
    IF 2 * n < d THEN {k}
    ELSE IF 2 * n > d THEN {k + 1}
    ELSE {k, k + 1}

\* a rounding of the price to whole roubles
RoundToOne(x) == Nearest(x.int, x.num, x.den)

\* round(x, -1), in roubles
RoundToTen(x) ==
    LET t == x.int \div 10
        r == x.int % 10
    IN  IF r < 5 THEN {10 * t}
        ELSE IF r > 5 \/ x.num > 0 THEN {10 * t + 10}
        ELSE {10 * t, 10 * t + 10}

\* round(x, 2), in kopecks
RoundToCent(x) ==
    LET t1 == (10 * x.num) \div x.den
        r1 == (10 * x.num) % x.den
        t2 == (10 * r1) \div x.den
        r2 == (10 * r1) % x.den
    IN  Nearest(100 * x.int + 10 * t1 + t2, r2, x.den)

\* a base price that adds the hours after the surcharges of the flags
get_base_price_hours_last(f) ==
    LET b0 == Whole(BASE_PRICES(f.category))
        b1 == IF f.complexity > 1
              THEN Times(b0, 10 + (f.complexity - 1) * 2, 10) ELSE b0
        b3 == IF f.materials_needed THEN Times(b1, 115, 100) ELSE b1
        b4 == IF f.high_voltage THEN Times(b3, 13, 10) ELSE b3
        b5 == IF f.height_work THEN Times(b4, 125, 100) ELSE b4
        b6 == IF f.outdoors THEN Times(b5, 12, 10) ELSE b5
    IN  IF f.estimated_hours > 2
        THEN Plus(b6, (f.estimated_hours - 2) * 400) ELSE b6

\* _get_base_price
get_base_price(f) ==
    LET b0 == Whole(BASE_PRICES(f.category))
        b1 == IF f.complexity > 1
              THEN Times(b0, 10 + (f.complexity - 1) * 2, 10) ELSE b0
        b2 == IF f.estimated_hours > 2
              THEN Plus(b1, (f.estimated_hours - 2) * 400) ELSE b1
        b3 == IF f.materials_needed THEN Times(b2, 115, 100) ELSE b2
        b4 == IF f.high_voltage THEN Times(b3, 13, 10) ELSE b3
        b5 == IF f.height_work THEN Times(b4, 125, 100) ELSE b4
    IN  IF f.outdoors THEN Times(b5, 12, 10) ELSE b5

\* _calculate_points_price, in roubles
calculate_points_price(f) ==
    IF f.category # "electrical" THEN 0
    ELSE (IF f.outlets > 0
          THEN (350 + (IF f.materials_needed THEN 850 ELSE 0)) * f.outlets ELSE 0)
       + (IF f.switches > 0
          THEN (300 + (IF f.materials_needed THEN 1500 ELSE 0)) * f.switches ELSE 0)
       + (IF f.chandeliers > 0 THEN 1000 * f.chandeliers ELSE 0)

\* the keys of the multipliers dict in the order they are inserted
MultiplierNames == <<"urgency", "time_of_day", "district", "distance">>

\* the factor of each key, as a fraction <<p, q>>
MultiplierOf(f, name) ==
    CASE name = "urgency"     -> URGENCY_MULTIPLIERS(f.urgency)
      [] name = "time_of_day" -> TIME_MULTIPLIERS(f.time_of_day)
      [] name = "district"    -> DISTRICT_MULTIPLIERS(f.district)
      [] name = "distance"    -> <<1000 + (f.distance_km - 100) * 2, 1000>>

\* _calculate_multipliers: the dict, a function of the keys it has
calculate_multipliers(f) ==
    LET keys == { name \in {"urgency", "time_of_day", "district"} :
                      MultiplierOf(f, name)[1] # MultiplierOf(f, name)[2] }
                \cup (IF f.distance_km > 100 THEN {"distance"} ELSE {})
    IN  [name \in keys |-> MultiplierOf(f, name)]

\* for name, mult in multipliers.items(): price *= mult, from key i on
RECURSIVE ApplyMultipliers(_, _, _)
ApplyMultipliers(price, multipliers, i) ==
    IF i > Len(MultiplierNames) THEN price
    ELSE LET name == MultiplierNames[i]
         IN  ApplyMultipliers(
                 IF name \in DOMAIN multipliers
                 THEN Times(price, multipliers[name][1], multipliers[name][2])
                 ELSE price,
                 multipliers, i + 1)

\* a discount whose tiers start one point late
get_volume_discount_above(total_points) ==
    IF total_points > 21 THEN 20
    ELSE IF total_points > 11 THEN 15
    ELSE IF total_points > 6 THEN 10
    ELSE IF total_points > 3 THEN 5
    ELSE 0

\* _get_volume_discount, in percent
get_volume_discount(total_points) ==
    IF total_points >= 21 THEN 20
    ELSE IF total_points >= 11 THEN 15
    ELSE IF total_points >= 6 THEN 10
    ELSE IF total_points >= 3 THEN 5
    ELSE 0

\* PriceCalculator.calculate: the quotes it may return for the factors f
calculate(f) ==
    LET base_price       == get_base_price(f)
        points_price     == calculate_points_price(f)
        subtotal         == Plus(base_price, points_price)
        multipliers      == calculate_multipliers(f)
        price            == ApplyMultipliers(subtotal, multipliers, 1)
        total_points     == f.outlets + f.switches + f.chandeliers
        discount_percent == get_volume_discount(total_points)
        discount_amount  == Times(price, discount_percent, 100)
        final_price      == Times(price, 100 - discount_percent, 100)
    IN  { [ base_price   |-> b,
            points_price |-> 100 * points_price,
            subtotal     |-> st,
            total_price  |-> t,
            discount     |-> [percent |-> discount_percent, amount |-> a],
            multipliers  |-> [name \in DOMAIN multipliers |->
                                 RoundDiv(100 * multipliers[name][1],
                                          multipliers[name][2])] ] :
          b \in RoundToCent(base_price), st \in RoundToCent(subtotal),
          t \in RoundToTen(final_price), a \in RoundToCent(discount_amount) }

(* ------------------------ estimate from a text ------------------------ *)
(* A description is a string with one character for each character of the  *)
(* text, so that lengths, substrings and counts are those of the text.  A   *)
(* Cyrillic letter is written as one ASCII character:                       *)
(*   a b v g d e j z i q k l m n o p r s t u f h c w x y  for               *)
(*   а б в г д е ж з и й к л м н о п р с т у ф х ц ч ш ы,  the capital of   *)
(*   each for its capital, and                                              *)
(*   ^ $ ' & @ ~  for  ё щ ь э ю я,    ! # * % + ?  for  Ё Щ Ь Э Ю Я.       *)
(* Digits, blanks and full stops stand for themselves.                      *)

Capitals == [c \in {"A", "B", "V", "G", "D", "E", "J", "Z", "I", "Q", "K", "L",
                    "M", "N", "O", "P", "R", "S", "T", "U", "F", "H", "C", "W",
                    "X", "Y", "!", "#", "*", "%", "+", "?"} |->
    CASE c = "A" -> "a" [] c = "B" -> "b" [] c = "V" -> "v" [] c = "G" -> "g"
      [] c = "D" -> "d" [] c = "E" -> "e" [] c = "J" -> "j" [] c = "Z" -> "z"
      [] c = "I" -> "i" [] c = "Q" -> "q" [] c = "K" -> "k" [] c = "L" -> "l"
      [] c = "M" -> "m" [] c = "N" -> "n" [] c = "O" -> "o" [] c = "P" -> "p"
      [] c = "R" -> "r" [] c = "S" -> "s" [] c = "T" -> "t" [] c = "U" -> "u"
      [] c = "F" -> "f" [] c = "H" -> "h" [] c = "C" -> "c" [] c = "W" -> "w"
      [] c = "X" -> "x" [] c = "Y" -> "y" [] c = "!" -> "^" [] c = "#" -> "$"
      [] c = "*" -> "'" [] c = "%" -> "&" [] c = "+" -> "@" [] c = "?" -> "~"]

\* str.lower, character by character
RECURSIVE Lower(_)
Lower(s) ==
    IF Len(s) = 0 THEN s
    ELSE IF Len(s) = 1 THEN (IF s \in DOMAIN Capitals THEN Capitals[s] ELSE s)
    ELSE LET half == Len(s) \div 2
         IN  Lower(SubSeq(s, 1, half)) \o Lower(SubSeq(s, half + 1, Len(s)))

\* str.count: the occurrences of p in s from position i on, none overlapping:
\* the first one from i on is counted, and the search goes on behind it
RECURSIVE CountFrom(_, _, _)
CountFrom(p, s, i) ==
    LET found == { k \in i..(Len(s) - Len(p) + 1) : SubSeq(s, k, k + Len(p) - 1) = p }
    IN  IF found = {} THEN 0
        ELSE LET first == CHOOSE k \in found : \A l \in found : k <= l
             IN  1 + CountFrom(p, s, first + Len(p))

Count(p, s) == CountFrom(p, s, 1)

\* any(word in s for word in words)
AnyIn(words, s) == \E word \in words : Substr(word, s)

PlumbingWords == {"kran", "truba", "sliv", "santehnika"}
ApplianceWords == {"stiral'na~", "holodil'nik", "tehnika"}
HvacWords == {"kondicioner", "ventil~ci~"}
UrgencyWords == {"srowno", "seqwas", "&kstrenno", "gorit"}
\* emergency words that take in a word of plain urgency
EmergencyWordsWider == {"&kstrenno", "gorit", "seqwas"}

EmergencyWords == {"&kstrenno", "gorit"}
VoltageWords == {"$it", "avtomat", "380", "tr^hfazn"}

\* the PriceFactors estimate_from_description builds of a description and a
\* category hint
estimate_factors(description, category) ==
    LET desc_lower == Lower(description)
        service_category ==
            IF category = "plumbing" \/ AnyIn(PlumbingWords, desc_lower)
            THEN "plumbing"
            ELSE IF category = "appliance" \/ AnyIn(ApplianceWords, desc_lower)
            THEN "appliance"
            ELSE IF category = "hvac" \/ AnyIn(HvacWords, desc_lower)
            THEN "hvac"
            ELSE "electrical"
        urgency ==
            IF AnyIn(UrgencyWords, desc_lower)
            THEN IF AnyIn(EmergencyWords, desc_lower) THEN "emergency" ELSE "urgent"
            ELSE "normal"
        outlets == Count("rozetk", desc_lower)
        switches == Count("vykl@watel", desc_lower)
        chandeliers == Count("l@str", desc_lower)
        by_length == IF Len(description) > 200 THEN 3
                     ELSE IF Len(description) > 100 THEN 2
                     ELSE 1
        high_voltage == AnyIn(VoltageWords, desc_lower)
        complexity == IF high_voltage /\ by_length < 4 THEN 4 ELSE by_length
        estimated_hours == (IF outlets + switches > 5 THEN 4 ELSE 2)
                           + (IF complexity >= 3 THEN 2 ELSE 0)
    IN  [DefaultFactors(service_category)
            EXCEPT !.urgency = urgency,
                   !.complexity = complexity,
                   !.estimated_hours = estimated_hours,
                   !.outlets = outlets,
                   !.switches = switches,
                   !.chandeliers = chandeliers,
                   !.high_voltage = high_voltage,
                   !.materials_needed = (urgency = "normal")]

\* estimate_from_description: the quotes it may return
estimate_from_description(description, category) ==
    calculate(estimate_factors(description, category))

(* ------------------------------ web form ------------------------------ *)

Digits == {"0", "1", "2", "3", "4", "5", "6", "7", "8", "9"}

\* the pattern ^\+\d{10,15}$ of the phone fields
PhonePattern(phone) ==
    /\ Len(phone) \in 11..16
    /\ SubSeq(phone, 1, 1) = "+"
    /\ \A i \in 2..Len(phone) : SubSeq(phone, i, i) \in Digits

\* the least length of ClientRequest.problem_description
MinDescription == 10

\* the validation of the fields of ClientRequest a submission varies in:
\* category is any string, problem_description has a least length
ClientRequest(category, problem_description) ==
    Len(problem_description) >= MinDescription

\* the address of the submissions
Address == "ul. Mira 1"

\* calculate_pricing with the price calculator loaded: the prices it may
\* return, in roubles
calculate_pricing(category, description) ==
    { q.total_price : q \in estimate_from_description(description, category) }

\* POST /api/v1/ai/web-form with a body: the body is validated as a
\* ClientRequest, and the handler runs if it is one; the row it inserts has,
\* besides the columns of the lifecycle, the text, the address and the price
web_form(category, problem_description) ==
    IF ClientRequest(category, problem_description)
    THEN { [r EXCEPT !.jobs =
                [r.jobs EXCEPT ![Len(r.jobs)] =
                    [ problem_description |-> problem_description,
                      address             |-> Address,
                      estimated_price     |-> price ] @@ r.jobs[Len(r.jobs)]]] :
             r \in process_client_request(category),
             price \in calculate_pricing(category, problem_description) }
    ELSE { [jobs |-> jobs, code |-> 422] }

\* the validation of a whole body as a ClientRequest
ClientRequestBody(body) ==
    /\ Len(body.name) \in 2..100
    /\ PhonePattern(body.phone)
    /\ ClientRequest(body.category, body.problem_description)
    /\ Len(body.address) >= 5

\* POST /api/v1/ai/web-form with the body of a client: the row inserted
\* carries the name, the phone and the address of the body
post_web_form(body) ==
    IF ClientRequestBody(body)
    THEN { [r EXCEPT !.jobs =
                [r.jobs EXCEPT ![Len(r.jobs)] =
                    [ client_name  |-> body.name,
                      client_phone |-> body.phone,
                      address      |-> body.address ] @@ r.jobs[Len(r.jobs)]]] :
             r \in web_form(body.category, body.problem_description) }
    ELSE { [jobs |-> jobs, code |-> 422] }

(* ------------------------------ client bot ---------------------------- *)
(* client_bot.state is the state of the dialogue (NAME, PHONE, PROBLEM,    *)
(* ADDRESS, CONFIRM, or END outside one), user_data what the handlers have *)
(* stored, reply the last message sent.  The category is chosen from the   *)
(* keyboard after the phone; it is taken as chosen with the phone.         *)

\* /start
ClientStart ==
    /\ client_bot.state = "END"
    /\ client_bot' = [client_bot EXCEPT !.state = "NAME", !.reply = "your name?"]
    /\ UNCHANGED <<masters, jobs, transactions, cards, sink_calls, factors, quote,
                   request, templates, master_bot>>

\* get_name stores any text
get_name(name) ==
    [client_bot EXCEPT !.user_data = [name |-> name] @@ @,
                       !.state = "PHONE",
                       !.reply = "your phone?"]

GetName(name) ==
    /\ client_bot.state = "NAME"
    /\ client_bot' = get_name(name)
    /\ UNCHANGED <<masters, jobs, transactions, cards, sink_calls, factors, quote,
                   request, templates, master_bot>>

\* get_phone, and get_category with a category of the keyboard
get_phone(phone, category) ==
    IF ~(Len(phone) >= 2 /\ SubSeq(phone, 1, 2) = "+7") \/ Len(phone) # 12
    THEN [client_bot EXCEPT !.reply = "wrong phone"]
    ELSE [client_bot EXCEPT !.user_data = [ phone    |-> phone,
                                            category |-> category ] @@ @,
                            !.state = "PROBLEM",
                            !.reply = "your problem?"]

GetPhone(phone, category) ==
    /\ client_bot.state = "PHONE"
    /\ client_bot' = get_phone(phone, category)
    /\ UNCHANGED <<masters, jobs, transactions, cards, sink_calls, factors, quote,
                   request, templates, master_bot>>

get_problem(problem) ==
    IF Len(problem) < 10
    THEN [client_bot EXCEPT !.reply = "too short a problem"]
    ELSE [client_bot EXCEPT !.user_data = [problem |-> problem] @@ @,
                            !.state = "ADDRESS",
                            !.reply = "your address?"]

GetProblem(problem) ==
    /\ client_bot.state = "PROBLEM"
    /\ client_bot' = get_problem(problem)
    /\ UNCHANGED <<masters, jobs, transactions, cards, sink_calls, factors, quote,
                   request, templates, master_bot>>

get_address(address) ==
    IF Len(address) < 5
    THEN [client_bot EXCEPT !.reply = "too short an address"]
    ELSE [client_bot EXCEPT !.user_data = [address |-> address] @@ @,
                            !.state = "CONFIRM",
                            !.reply = "confirm?"]

GetAddress(address) ==
    /\ client_bot.state = "ADDRESS"
    /\ client_bot' = get_address(address)
    /\ UNCHANGED <<masters, jobs, transactions, cards, sink_calls, factors, quote,
                   request, templates, master_bot>>

\* confirm: on "da" ("yes", "lf") in any case the user_data is submitted
confirm(answer) ==
    IF Lower(answer) \notin {"da", "yes", "lf"}
    THEN { [ jobs |-> jobs, code |-> NULL,
             client_bot |-> [client_bot EXCEPT !.state = "END",
                                               !.reply = "cancelled"] ] }
    ELSE LET data == client_bot.user_data
         IN  { [ jobs |-> response.jobs,
                 code |-> response.code,
                 client_bot |-> [client_bot EXCEPT
                                   !.state = "END",
                                   !.reply = IF response.code = 200
                                             THEN "job created"
                                             ELSE "error creating the job"] ] :
                 response \in post_web_form(
                                 [ name                |-> data.name,
                                   phone               |-> data.phone,
                                   category            |-> data.category,
                                   problem_description |-> data.problem,
                                   address             |-> data.address ]) }

Confirm(answer) ==
    /\ client_bot.state = "CONFIRM"
    /\ Len(jobs) < MaxJobs
    /\ \E r \in confirm(answer) : /\ jobs' = r.jobs
                                  /\ client_bot' = r.client_bot
    /\ UNCHANGED <<masters, transactions, cards, sink_calls, factors, quote,
                   request, templates, master_bot>>

(* --------------------------- quick templates -------------------------- *)

\* no keyword arguments
NoOverrides == <<>>

\* The table QUICK_TEMPLATES of the running module is kept as what has
\* changed in it since the module was loaded: for each template, the
\* attributes that differ from the definition, with their values.
NoChanges == [name \in TemplateNames |-> <<>>]

\* the template of the name in the table t
TemplateOf(t, name) ==
    [key \in DOMAIN QUICK_TEMPLATES[name] |->
        IF key \in DOMAIN t[name] THEN t[name][key] ELSE QUICK_TEMPLATES[name][key]]

\* what differs in the template from the definition of the name
ChangesOf(name, template) ==
    [key \in { k \in DOMAIN template : template[k] # QUICK_TEMPLATES[name][k] } |->
        template[key]]

\* get_quick_price(template_name, **overrides) with the table in state t:
\* the table it leaves and the quotes it may return, or that it raises
get_quick_price(t, template_name, overrides) ==
    IF template_name \notin DOMAIN t
    THEN [templates |-> t, raises |-> TRUE, quotes |-> {}]
    ELSE LET old == TemplateOf(t, template_name)
             template == [key \in DOMAIN old |->
                             IF key \in DOMAIN overrides
                             THEN overrides[key]
                             ELSE old[key]]
         IN  [templates |-> [t EXCEPT ![template_name] =
                                        ChangesOf(template_name, template)],
              raises    |-> FALSE,
              quotes    |-> calculate(template)]

(* --------------------------- master directory handlers --------------- *)

\* the request validation of MasterRegister; name, city and specializations
\* are taken as the registration dialogue collects them, which it passes
MasterRegister(phone) == PhonePattern(phone)

\* POST /api/v1/masters/register with its request validation: the phone
\* column is UNIQUE, the new row gets the next id
post_register_master(phone, specializations, city) ==
    IF ~MasterRegister(phone)
    THEN [masters |-> masters, code |-> 422, master_id |-> NULL]
    ELSE IF \E m \in DOMAIN masters : masters[m].phone = phone
    THEN [masters |-> masters, code |-> 400, master_id |-> NULL]
    ELSE [ masters   |-> Append(masters, [phone |-> phone] @@
                                         register_master(specializations, city)),
           code      |-> 200,
           master_id |-> Len(masters) + 1 ]

\* PATCH /api/v1/masters/{master_id}: the application has no such route; the
\* path is that of get_master_by_telegram, which takes GET only
patch_master(table, m, phone) == [masters |-> table, code |-> 405]

\* GET /api/v1/masters/{telegram_id}: the row whose phone is "+" and the
\* decimal digits of the id
get_master_by_telegram(telegram_id) ==
    LET found == { m \in DOMAIN masters :
                     masters[m].phone = "+" \o ToString(telegram_id) }
    IN  IF found = {}
        THEN [code |-> 404, master |-> NoMaster]
        ELSE LET m == CHOOSE m \in found : TRUE
             IN  [ code   |-> 200,
                   master |-> [ id              |-> m,
                                terminal_active |-> masters[m].terminal_active ] ]

\* POST /api/v1/masters/{master_id}/activate-terminal
activate_terminal(m) ==
    IF m \in DOMAIN masters
    THEN [masters |-> [masters EXCEPT ![m].terminal_active = TRUE], code |-> 200]
    ELSE [masters |-> masters, code |-> 404]

\* PATCH /api/v1/masters/{master_id}/terminal
update_terminal_status(m, terminal_active) ==
    [ masters |-> IF m \in DOMAIN masters
                  THEN [masters EXCEPT ![m].terminal_active = terminal_active]
                  ELSE masters,
      code    |-> 200 ]

(* ------------------------ operations (steps) -------------------------- *)

CreateJob(limit, category) ==
    /\ Len(jobs) < limit
    /\ \E r \in process_client_request(category) : jobs' = r.jobs
    /\ UNCHANGED <<masters, transactions, cards, outside>>

SubmitForm(category, problem_description) ==
    /\ Len(jobs) < MaxJobs
    /\ \E r \in web_form(category, problem_description) : jobs' = r.jobs
    /\ UNCHANGED <<masters, transactions, cards, outside>>

AssignJob(j, m) ==
    /\ jobs' = assign_job_to_master(j, m).jobs
    /\ UNCHANGED <<masters, transactions, cards, outside>>

SetJobStatus(j, new_status) ==
    /\ jobs' = update_job_status(j, new_status).jobs
    /\ UNCHANGED <<masters, transactions, cards, outside>>

SetJobStatusTerminal(m, j, new_status) ==
    /\ jobs' = terminal_update_job_status(m, j, new_status).jobs
    /\ UNCHANGED <<masters, transactions, cards, outside>>

\* a payment while the transactions table holds fewer than max rows
SettleJobUpTo(max, j, amount) ==
    /\ Len(transactions) < max
    /\ jobs' = process_payment(j, amount).jobs
    /\ transactions' = process_payment(j, amount).transactions
    /\ UNCHANGED <<masters, cards, outside>>

SettleJob(j, amount) == SettleJobUpTo(MaxTx, j, amount)

DepartJob(j) ==
    /\ jobs' = master_depart(j).jobs
    /\ UNCHANGED <<masters, transactions, cards, outside>>

ArriveJob(j) ==
    /\ jobs' = master_arrive(j).jobs
    /\ UNCHANGED <<masters, transactions, cards, outside>>

CreateJobSync(category, sink) ==
    /\ Len(jobs) < MaxSinkJobs
    /\ \E r \in process_client_request_sync(category, sink) :
          /\ jobs' = r.jobs
          /\ sink_calls' = r.sink_calls
    /\ UNCHANGED <<masters, transactions, cards, factors, quote, request, templates,
                   master_bot, client_bot>>

ArriveJobSync(j, sink) ==
    /\ jobs' = master_arrive_sync(j, sink).jobs
    /\ sink_calls' = master_arrive_sync(j, sink).sink_calls
    /\ UNCHANGED <<masters, transactions, cards, factors, quote, request, templates,
                   master_bot, client_bot>>

\* a quote is computed for the factors of the request
Calculate ==
    /\ factors # NoFactors
    /\ quote = NoQuote
    /\ quote' \in calculate(factors)
    /\ UNCHANGED <<masters, jobs, transactions, cards, sink_calls, factors,
                   request, templates, master_bot, client_bot>>

\* a quick price is asked for a template; factors are the factors priced
GetQuickPrice(template_name, overrides) ==
    LET r == get_quick_price(templates, template_name, overrides)
    IN  /\ templates' = r.templates
        /\ IF r.raises
           THEN UNCHANGED <<factors, quote>>
           ELSE /\ factors' = TemplateOf(r.templates, template_name)
                /\ quote' \in r.quotes
        /\ UNCHANGED <<masters, jobs, transactions, cards, sink_calls, request,
                       master_bot, client_bot>>

\* an estimate is made of the text and hint of the request
Estimate ==
    /\ request # NoRequest
    /\ quote = NoQuote
    /\ factors' = estimate_factors(request.description, request.category)
    /\ quote' \in estimate_from_description(request.description, request.category)
    /\ UNCHANGED <<masters, jobs, transactions, cards, sink_calls, request,
                   templates, master_bot, client_bot>>

ActivateTerminal(m) ==
    /\ masters' = activate_terminal(m).masters
    /\ UNCHANGED <<jobs, transactions, cards, outside>>

UpdateTerminalStatus(m, terminal_active) ==
    /\ masters' = update_terminal_status(m, terminal_active).masters
    /\ UNCHANGED <<jobs, transactions, cards, outside>>

(* ------------------------ master bot: sessions ----------------------- *)
(* master_bot[u] is what the bot holds for Telegram user u, once it has    *)
(* dealt with u:                                                           *)
(*   master     master_cache[u]: the id and the availability flag of the   *)
(*              record /start fetched, or none                             *)
(*   state      the state of the registration dialogue: "REG_PHONE" once   *)
(*              the name was given, "REG_CONFIRM" once phone, city and     *)
(*              specializations were, "END" outside a dialogue             *)
(*   reg_phone  user_data['reg_phone']                                     *)
(*   reply      the last message sent to u                                 *)
(* The updates of the bot are handled one at a time; a handler is taken    *)
(* with the API calls it awaits as one step.                               *)

\* the session of u as the bot holds it now
Session(u) == SessionOf(master_bot, u)

\* a master registers through the API, from any client
RegisterMaster(phone) ==
    /\ Len(masters) < NumMasters
    /\ masters' = post_register_master(phone, <<"electrical">>, DefaultCity).masters
    /\ UNCHANGED <<jobs, transactions, cards, outside>>

\* /start
start(u) ==
    LET master == get_master_by_telegram(u).master
    IN  WithSession(master_bot, u,
            IF master = NoMaster
            THEN [Session(u) EXCEPT !.reply = "please register"]
            ELSE [Session(u) EXCEPT !.master = master, !.reply = "menu"])

Start(u) ==
    /\ master_bot' = start(u)
    /\ UNCHANGED <<masters, jobs, transactions, cards, sink_calls, factors, quote,
                   request, templates, client_bot>>

\* the button "register" and the name: start_registration and reg_get_name
StartRegistration(u) ==
    /\ Session(u).state = "END"
    /\ master_bot' = WithSession(master_bot, u,
                        [Session(u) EXCEPT !.state = "REG_PHONE",
                                           !.reply = "your phone?"])
    /\ UNCHANGED <<masters, jobs, transactions, cards, sink_calls, factors, quote,
                   request, templates, client_bot>>

\* reg_get_phone; the city and the specializations that follow are taken as
\* given
reg_get_phone(u, phone) ==
    WithSession(master_bot, u,
        IF ~(Len(phone) >= 2 /\ SubSeq(phone, 1, 2) = "+7") \/ Len(phone) # 12
        THEN [Session(u) EXCEPT !.reply = "wrong format"]
        ELSE [Session(u) EXCEPT !.reg_phone = phone,
                                !.state = "REG_CONFIRM",
                                !.reply = "all correct?"])

RegGetPhone(u, phone) ==
    /\ Session(u).state = "REG_PHONE"
    /\ master_bot' = reg_get_phone(u, phone)
    /\ UNCHANGED <<masters, jobs, transactions, cards, sink_calls, factors, quote,
                   request, templates, client_bot>>

\* reg_confirm on "yes": the master is registered with the phone given, then
\* the phone is to be replaced by the key of the Telegram id; the response to
\* that second request is not looked at
reg_confirm(u) ==
    LET registered == post_register_master(Session(u).reg_phone,
                                           <<"electrical">>, DefaultCity)
    IN  IF registered.code = 200
        THEN [ masters    |-> patch_master(registered.masters, registered.master_id,
                                           "+" \o ToString(u)).masters,
               master_bot |-> WithSession(master_bot, u,
                                 [Session(u) EXCEPT
                                    !.state = "END",
                                    !.reg_phone = "",
                                    !.reply = "registration complete"]) ]
        ELSE [ masters    |-> masters,
               master_bot |-> WithSession(master_bot, u,
                                 [Session(u) EXCEPT
                                    !.state = "END",
                                    !.reply = "registration error"]) ]

RegConfirm(u) ==
    /\ Session(u).state = "REG_CONFIRM"
    /\ Len(masters) < NumMasters
    /\ masters' = reg_confirm(u).masters
    /\ master_bot' = reg_confirm(u).master_bot
    /\ UNCHANGED <<jobs, transactions, cards, sink_calls, factors, quote,
                   request, templates, client_bot>>

\* toggle_terminal: the flag is set to the opposite of the cached one
toggle_terminal(u) ==
    LET master == Session(u).master
    IN  IF master = NoMaster
        THEN [ masters    |-> masters,
               code       |-> NULL,
               master_bot |-> WithSession(master_bot, u,
                                 [Session(u) EXCEPT !.reply = "master not found"]) ]
        ELSE LET new_status == ~master.terminal_active
                 response   == update_terminal_status(master.id, new_status)
             IN  [ masters    |-> response.masters,
                   code       |-> response.code,
                   master_bot |-> WithSession(master_bot, u,
                                     IF response.code = 200
                                     THEN [Session(u) EXCEPT
                                             !.master.terminal_active = new_status,
                                             !.reply = IF new_status
                                                       THEN "terminal on"
                                                       ELSE "terminal off"]
                                     ELSE [Session(u) EXCEPT
                                             !.reply = "status not changed"]) ]

ToggleTerminal(u) ==
    /\ masters' = toggle_terminal(u).masters
    /\ master_bot' = toggle_terminal(u).master_bot
    /\ UNCHANGED <<jobs, transactions, cards, sink_calls, factors, quote,
                   request, templates, client_bot>>

(* ----------------------------- master bot ---------------------------- *)
(* cards[m][j] is the card of job j in the chat of master m:               *)
(*   "none"      no card was sent                                          *)
(*   "new"       sent by show_new_jobs, with the button "accept"           *)
(*   "sent"      accept pressed, POST .../assign awaits its response       *)
(*   "ok"        response 200: the card is edited, its button is gone      *)
(*   "conflict"  any other response: an error is sent, the button stays    *)

\* GET /api/v1/jobs?status=...: the ids of the rows returned (SELECT *)
get_jobs(status) == { j \in JobIds : jobs[j].status = status }

\* jobs[:5] of the rows ordered by created_at DESC
FirstCards(ids) == { j \in ids : Cardinality({ k \in ids : k > j }) < MaxCards }

\* the message show_job_card sends for the row job
show_job_card(job, is_new) ==
    [ category     |-> job.category,
      client_name  |-> job.client_name,
      client_phone |-> job.client_phone,
      status       |-> job.status,
      buttons      |-> IF is_new THEN {"accept"}
                       ELSE IF job.status = "accepted" THEN {"start", "cancel"}
                       ELSE IF job.status = "in_progress" THEN {"complete"}
                       ELSE IF job.status = "completed" THEN {"call"}
                       ELSE {} ]

\* GET /api/v1/terminal/jobs/{master_id}/active: the job it may return, the
\* latest by created_at of the master's accepted and in_progress jobs (any
\* of the latest ones, since jobs created in one second have one
\* created_at), or NULL
get_active_job(m) ==
    LET found == { j \in JobIds : /\ jobs[j].master_id = m
                                  /\ jobs[j].status \in {"accepted", "in_progress"} }
    IN  IF found = {} THEN {NULL} ELSE found

\* GET /api/v1/masters/{master_id}/jobs: the ids of the rows returned
get_master_jobs_all(m) == { j \in JobIds : jobs[j].master_id = m }

\* show_my_jobs of master m: the cards sent under "active" and under
\* "completed", by job id
show_my_jobs(m) ==
    LET my_jobs   == get_master_jobs_all(m)
        active    == { j \in my_jobs : jobs[j].status \in {"accepted", "in_progress"} }
        completed == { j \in my_jobs : jobs[j].status = "completed" }
    IN  [ active    |-> [j \in active |-> show_job_card(jobs[j], FALSE)],
          completed |-> [j \in { k \in completed :
                                   Cardinality({ l \in completed : l > k }) < 3 } |->
                            show_job_card(jobs[j], FALSE)] ]

\* show_new_jobs: a card for each of the first pending jobs
ShowNewJobs(m) ==
    /\ LET listed == FirstCards(get_jobs("pending"))
       IN  cards' = [cards EXCEPT ![m] =
                        [j \in CardJobIds |->
                            IF j \in listed /\ cards[m][j] = "none"
                            THEN "new" ELSE cards[m][j]]]
    /\ UNCHANGED <<masters, jobs, transactions, outside>>

\* handle_callback "accept_<id>" -> accept_job, up to the awaited POST
AcceptJob(m, j) ==
    /\ cards[m][j] \in {"new", "conflict"}
    /\ cards' = [cards EXCEPT ![m][j] = "sent"]
    /\ UNCHANGED <<masters, jobs, transactions, outside>>

\* the API handles the POST of master m and accept_job shows the outcome
AssignHandled(m, j) ==
    /\ cards[m][j] = "sent"
    /\ LET r == assign_job_to_master(j, m)
       IN  /\ jobs' = r.jobs
           /\ cards' = [cards EXCEPT ![m][j] =
                           IF r.code = 200 THEN "ok" ELSE "conflict"]
    /\ UNCHANGED <<masters, transactions, outside>>

(* --------------------------- specification ---------------------------- *)

\* the state after the modules are loaded and the tables created
Init ==
    /\ masters = [m \in MasterIds |-> RegisteredMaster(m)]
    /\ jobs = <<>>
    /\ transactions = <<>>
    /\ cards = [m \in MasterIds |-> [j \in CardJobIds |-> "none"]]
    /\ sink_calls = <<>>
    /\ factors = NoFactors
    /\ quote = NoQuote
    /\ request = NoRequest
    /\ templates = NoChanges
    /\ master_bot = NoSessions
    /\ client_bot = NoDialogue

Next ==
    \/ \E c \in RequestCategories : CreateJob(MaxJobs, c)
    \/ \E j \in JobIdInputs, m \in MasterIds : AssignJob(j, m)
    \/ \E j \in JobIdInputs, s \in StatusInputs : SetJobStatus(j, s)
    \/ \E m \in MasterIds, j \in JobIdInputs, s \in StatusInputs :
          SetJobStatusTerminal(m, j, s)
    \/ \E j \in JobIdInputs, a \in Amounts : SettleJob(j, a)
    \/ \E j \in JobIdInputs : DepartJob(j)
    \/ \E j \in JobIdInputs : ArriveJob(j)

Spec == Init /\ [][Next]_vars

\* masters competing in the bot for the jobs clients submit
NextRace ==
    \/ \E c \in RequestCategories : CreateJob(MaxRaceJobs, c)
    \/ \E m \in MasterIds : ShowNewJobs(m)
    \/ \E m \in MasterIds, j \in CardJobIds : AcceptJob(m, j)
    \/ \E m \in MasterIds, j \in CardJobIds : AssignHandled(m, j)

SpecRace == Init /\ [][NextRace]_vars

\* a directory of NumMasters registered masters, whose terminals go on and off
InitDirectory ==
    /\ masters \in [MasterIds ->
                      { [register_master(sp, c) EXCEPT !.rating = r] :
                            sp \in SpecLists, c \in Cities, r \in Ratings }]
    /\ jobs = <<>>
    /\ transactions = <<>>
    /\ cards = [m \in MasterIds |-> [j \in CardJobIds |-> "none"]]
    /\ sink_calls = <<>>
    /\ factors = NoFactors
    /\ quote = NoQuote
    /\ request = NoRequest
    /\ templates = NoChanges
    /\ master_bot = NoSessions
    /\ client_bot = NoDialogue

NextDirectory ==
    \/ \E m \in MasterIdInputs : ActivateTerminal(m)
    \/ \E m \in MasterIdInputs, a \in BOOLEAN : UpdateTerminalStatus(m, a)

SpecDirectory == InitDirectory /\ [][NextDirectory]_vars

\* masters register, through the bot or another client, and switch their
\* terminals, from the bot or another client; the directory starts empty
InitTerminal ==
    /\ masters = <<>>
    /\ jobs = <<>>
    /\ transactions = <<>>
    /\ cards = [m \in MasterIds |-> [j \in CardJobIds |-> "none"]]
    /\ sink_calls = <<>>
    /\ factors = NoFactors
    /\ quote = NoQuote
    /\ request = NoRequest
    /\ templates = NoChanges
    /\ master_bot = NoSessions
    /\ client_bot = NoDialogue

NextTerminal ==
    \/ \E p \in MasterPhones : RegisterMaster(p)
    \/ \E u \in TelegramUsers : Start(u)
    \/ \E u \in TelegramUsers : StartRegistration(u)
    \/ \E u \in TelegramUsers, p \in MasterPhones : RegGetPhone(u, p)
    \/ \E u \in TelegramUsers : RegConfirm(u)
    \/ \E u \in TelegramUsers : ToggleTerminal(u)
    \/ \E m \in MasterIdInputs : ActivateTerminal(m)
    \/ \E m \in MasterIdInputs, a \in BOOLEAN : UpdateTerminalStatus(m, a)

SpecTerminal == InitTerminal /\ [][NextTerminal]_vars

\* submissions and arrivals with the notification sink in any state
NextSink ==
    \/ \E c \in RequestCategories, s \in SinkStates : CreateJobSync(c, s)
    \/ \E j \in 1..MaxSinkJobs : DepartJob(j)
    \/ \E j \in 1..MaxSinkJobs, s \in SinkStates : ArriveJobSync(j, s)

SpecSink == Init /\ [][NextSink]_vars

\* payments of any of the amounts
NextFee ==
    \/ \E c \in RequestCategories : CreateJob(MaxJobs, c)
    \/ \E j \in JobIdInputs, a \in FeeAmounts : SettleJobUpTo(MaxPayments, j, a)

SpecFee == Init /\ [][NextFee]_vars

\* payments of the smallest amounts and of amounts with kopecks
NextSplit ==
    \/ \E c \in RequestCategories : CreateJob(MaxJobs, c)
    \/ \E j \in JobIdInputs, a \in SplitAmounts :
          SettleJobUpTo(MaxPayments, j, a)

SpecSplit == Init /\ [][NextSplit]_vars

\* values of PriceFactors a quote is asked for
Complexities == 1..5
HoursTried == {0, 2, 5}
DistancesTried == {0, 100, 101, 104, 150}
PointsTried == 0..MaxPoints

\* the factors of a job of default work with the given order and points
OrderFactors(c, u, t, d, km, o, sw, ch) ==
    [DefaultFactors(c) EXCEPT !.urgency = u, !.time_of_day = t, !.district = d,
                              !.distance_km = km,
                              !.outlets = o, !.switches = sw, !.chandeliers = ch]

\* the factors of a default order of the given work and points
WorkFactors(c, cx, h, mn, hv, hw, od, o, sw, ch) ==
    [DefaultFactors(c) EXCEPT !.complexity = cx, !.estimated_hours = h,
                              !.materials_needed = mn, !.high_voltage = hv,
                              !.height_work = hw, !.outdoors = od,
                              !.outlets = o, !.switches = sw, !.chandeliers = ch]

\* the factors of the given order with all flags or none and n points of
\* each kind
ExtremeFactors(c, u, t, d, km, cx, h, all, n) ==
    [OrderFactors(c, u, t, d, km, n, n, n)
        EXCEPT !.complexity = cx, !.estimated_hours = h,
               !.materials_needed = all, !.high_voltage = all,
               !.height_work = all, !.outdoors = all]

\* A quote is asked for: every order (urgency, time, district, distance) for
\* a job of default work, every work (complexity, hours, flags) for a default
\* order, and every order for the extremes of work; each with every category,
\* one the price table does not have among them, and with installation points.
InitPricing ==
    /\ masters = [m \in MasterIds |-> RegisteredMaster(m)]
    /\ jobs = <<>>
    /\ transactions = <<>>
    /\ cards = [m \in MasterIds |-> [j \in CardJobIds |-> "none"]]
    /\ sink_calls = <<>>
    /\ quote = NoQuote
    /\ request = NoRequest
    /\ templates = NoChanges
    /\ master_bot = NoSessions
    /\ client_bot = NoDialogue
    /\ \E c \in Categories \cup UnknownCategories,
          o \in PointsTried, sw \in PointsTried, ch \in PointsTried :
          \/ \E u \in Urgencies, t \in TimesOfDay, d \in Districts, km \in DistancesTried :
                factors = OrderFactors(c, u, t, d, km, o, sw, ch)
          \/ \E cx \in Complexities, h \in HoursTried,
                mn \in BOOLEAN, hv \in BOOLEAN, hw \in BOOLEAN, od \in BOOLEAN :
                factors = WorkFactors(c, cx, h, mn, hv, hw, od, o, sw, ch)
          \/ \E u \in Urgencies, t \in TimesOfDay, d \in Districts, km \in DistancesTried,
                cx \in {1, 5}, h \in {2, 5}, all \in BOOLEAN :
                /\ o = sw /\ sw = ch /\ o \in {0, MaxPoints}
                /\ factors = ExtremeFactors(c, u, t, d, km, cx, h, all, o)

NextPricing == Calculate

SpecPricing == InitPricing /\ [][NextPricing]_vars

\* A quote is asked for a job of up to MaxDiscountPoints outlets, with or
\* without a switch and a chandelier, of every category and urgency.
InitDiscount ==
    /\ masters = [m \in MasterIds |-> RegisteredMaster(m)]
    /\ jobs = <<>>
    /\ transactions = <<>>
    /\ cards = [m \in MasterIds |-> [j \in CardJobIds |-> "none"]]
    /\ sink_calls = <<>>
    /\ quote = NoQuote
    /\ request = NoRequest
    /\ templates = NoChanges
    /\ master_bot = NoSessions
    /\ client_bot = NoDialogue
    /\ \E c \in Categories, u \in Urgencies,
          o \in 0..MaxDiscountPoints, sw \in 0..1, ch \in 0..1 :
          factors = OrderFactors(c, u, "day", "center", 0, o, sw, ch)

NextDiscount == Calculate

SpecDiscount == InitDiscount /\ [][NextDiscount]_vars

\* the texts an estimate is asked for, made of words and filled to a length
RECURSIVE Repeat(_, _)
Repeat(word, n) ==
    IF n = 0 THEN ""
    ELSE IF n = 1 THEN word
    ELSE Repeat(word, n \div 2) \o Repeat(word, n - n \div 2)

PadTo(text, n) == text \o Repeat(".", IF n > Len(text) THEN n - Len(text) ELSE 0)

UrgencyTexts == {"", "Srowno ", "seqwas ", "%kstrenno ", "srowno Gorit "}
CategoryTexts == {"", "kran ", "stiral'na~ maxina ", "kondicioner "}
VoltageTexts == {"", "$itok "}
WordCounts == {0, 1, MaxWords}
LengthsTried == {0, 100, 101, 200, 201}
HintsTried == Categories \cup {"unknown"}
ItemHints == {"electrical", "plumbing"}

Describe(u, k, o, sw, ch, v, n) ==
    PadTo(u \o k \o Repeat("rozetka ", o) \o Repeat("vykl@watel' ", sw)
            \o Repeat("l@stra ", ch) \o v, n)

\* the example of an urgent job
UrgentExample == "Srowno nujno ustanovit' 3 rozetki i 2 vykl@watel~"

\* An estimate is asked for a text and a hint: a text of every urgency,
\* voltage and length, either with every category word and every hint, or
\* with every number of items; or a quote is asked for a job of a category
\* the price table does not have.
InitEstimate ==
    /\ masters = [m \in MasterIds |-> RegisteredMaster(m)]
    /\ jobs = <<>>
    /\ transactions = <<>>
    /\ cards = [m \in MasterIds |-> [j \in CardJobIds |-> "none"]]
    /\ sink_calls = <<>>
    /\ quote = NoQuote
    /\ templates = NoChanges
    /\ master_bot = NoSessions
    /\ client_bot = NoDialogue
    /\ \/ /\ factors = NoFactors
          /\ \E u \in UrgencyTexts, v \in VoltageTexts, n \in LengthsTried :
                \/ \E hint \in HintsTried, k \in CategoryTexts :
                      request = [description |-> Describe(u, k, 0, 0, 0, v, n),
                                 category |-> hint]
                \/ \E hint \in ItemHints,
                      o \in WordCounts, sw \in WordCounts, ch \in WordCounts :
                      request = [description |-> Describe(u, "", o, sw, ch, v, n),
                                 category |-> hint]
                \/ \E hint \in HintsTried :
                      request = [description |-> UrgentExample, category |-> hint]
       \/ /\ request = NoRequest
          /\ \E c \in UnknownCategories, u \in Urgencies, t \in TimesOfDay,
                cx \in Complexities, o \in PointsTried :
                factors = [OrderFactors(c, u, t, "center", 0, o, 0, 0)
                              EXCEPT !.complexity = cx]

NextEstimate ==
    \/ Estimate
    \/ Calculate

SpecEstimate == InitEstimate /\ [][NextEstimate]_vars

\* forms are submitted with any category and text, and the jobs go on
FormCategories == {"electrical", "gardening"}
FormDescriptions == {"", "net sveta", "tewet kran"}

NextForm ==
    \/ \E c \in FormCategories, d \in FormDescriptions : SubmitForm(c, d)
    \/ \E j \in JobIdInputs, m \in MasterIds : AssignJob(j, m)
    \/ \E j \in JobIdInputs, s \in StatusInputs : SetJobStatus(j, s)
    \/ \E j \in JobIdInputs, a \in Amounts : SettleJob(j, a)
    \/ \E j \in JobIdInputs : DepartJob(j)
    \/ \E j \in JobIdInputs : ArriveJob(j)

SpecForm == Init /\ [][NextForm]_vars

\* clients go through the dialogue of the client bot, typing any of the
\* texts at each question
NextDialogue ==
    \/ ClientStart
    \/ \E name \in NamesTyped : GetName(name)
    \/ \E phone \in PhonesTyped, c \in RequestCategories : GetPhone(phone, c)
    \/ \E problem \in ProblemsTyped : GetProblem(problem)
    \/ \E address \in AddressesTyped : GetAddress(address)
    \/ \E answer \in AnswersTyped : Confirm(answer)

SpecDialogue == Init /\ [][NextDialogue]_vars

\* quick prices are asked for, with and without keyword arguments
TemplateInputs == {"outlet_single", "emergency_electrical", "unknown"}
OverridesTried == { NoOverrides,
                    [district |-> "baltika"],
                    [urgency |-> "urgent"],
                    [outlets |-> 3, materials_needed |-> TRUE],
                    [colour |-> "red"] }

NextQuick ==
    \E name \in TemplateInputs, overrides \in OverridesTried :
        GetQuickPrice(name, overrides)

SpecQuick == Init /\ [][NextQuick]_vars

(* ------------------------------ properties ---------------------------- *)

\* the transitions of the job state machine that a status update may make
LegalTransition(from, to) ==
    <<from, to>> \in { <<"pending", "accepted">>,
                       <<"accepted", "in_progress">>,
                       <<"in_progress", "completed">>,
                       <<"pending", "cancelled">>,
                       <<"accepted", "cancelled">> }

\* the rows of the transactions table txs that belong to job j
TxFor(txs, j) == { i \in DOMAIN txs : txs[i].job_id = j }

\* C1: of the assign calls masters make for one job from its card, which was
\* sent while the job was pending, exactly one is answered 200 and every other
\* answered one is a conflict, in every interleaving; the job is then accepted
\* and bound to the master whose call succeeded.
AssignRaceOneWinner ==
    \A j \in CardJobIds :
        LET winners  == { m \in MasterIds : cards[m][j] = "ok" }
            answered == { m \in MasterIds : cards[m][j] \in {"ok", "conflict"} }
        IN  /\ Cardinality(winners) <= 1
            /\ answered # {} =>
                  \E w \in MasterIds :
                      /\ winners = {w}
                      /\ jobs[j].status = "accepted"
                      /\ jobs[j].master_id = w

\* two masters raced for one job: one call succeeded, the other got a conflict
AssignRaceWitness ==
    \E j \in CardJobIds : \E m1, m2 \in MasterIds :
        /\ m1 # m2
        /\ cards[m1][j] = "ok"
        /\ cards[m2][j] = "conflict"

\* C2: assign_job_to_master answers 200 exactly when the job exists and is
\* pending, and then the job is accepted and bound to the caller; in every
\* other status it answers 400 and leaves the jobs table as it was.
AssignOnlyWhenPending ==
    \A j \in JobIdInputs : \A m \in MasterIds :
        LET r == assign_job_to_master(j, m)
        IN  IF JobExists(j) /\ jobs[j].status = "pending"
            THEN /\ r.code = 200
                 /\ r.jobs[j].status = "accepted"
                 /\ r.jobs[j].master_id = m
            ELSE /\ r.code = 400
                 /\ r.jobs = jobs

\* a job a master took by assign has moved on to a status other than pending
AssignRefusedWitness ==
    \E j \in JobIds :
        /\ jobs[j].category = "plumbing"
        /\ jobs[j].master_id # NULL
        /\ jobs[j].status = "in_progress"

\* C3: a status update (generic or of the master terminal) that is none of the
\* legal transitions leaves the job's status as it was.
SetStatusOnlyLegal ==
    [][ \A j \in JobIds : \A s \in StatusInputs :
            (SetJobStatus(j, s) \/ \E m \in MasterIds : SetJobStatusTerminal(m, j, s))
                => \/ LegalTransition(jobs[j].status, s)
                   \/ jobs'[j].status = jobs[j].status ]_vars

\* C4: a job becomes cancelled only from pending or accepted, and a cancelled
\* job keeps its status and gets no transaction.
CancelledIsTerminal ==
    [][ \A j \in JobIds :
            /\ (jobs[j].status # "cancelled" /\ jobs'[j].status = "cancelled")
                  => jobs[j].status \in {"pending", "accepted"}
            /\ jobs[j].status = "cancelled"
                  => /\ jobs'[j].status = "cancelled"
                     /\ TxFor(transactions', j) = TxFor(transactions, j) ]_vars

\* C5: after every step each job of the table has at most one transaction,
\* and a transaction written stays as it was written.
OneTransactionPerJob ==
    [][ /\ \A j \in JobIds : Cardinality(TxFor(transactions', j)) <= 1
        /\ \A i \in DOMAIN transactions :
              /\ i \in DOMAIN transactions'
              /\ transactions'[i] = transactions[i] ]_vars

\* C6: every completed job has a transaction.
CompletedHasTransaction ==
    \A j \in JobIds :
        jobs[j].status = "completed" => TxFor(transactions, j) # {}

\* C7: a transaction is written for a job of the table only when the job is
\* in_progress, by the step that completes it.
TransactionOnlyOnCompletion ==
    [][ Len(transactions') > Len(transactions) =>
            LET t == transactions'[Len(transactions')]
            IN  JobExists(t.job_id) =>
                   /\ jobs[t.job_id].status = "in_progress"
                   /\ jobs'[t.job_id].status = "completed" ]_vars

\* C8: the reveal flag of a job is false when the job is created, is set only
\* by master_arrive on that job, and once set stays set under every step.
RevealOneWay ==
    [][ \A j \in 1..Len(jobs') :
            IF j \in JobIds
            THEN /\ jobs[j].client_phone_revealed => jobs'[j].client_phone_revealed
                 /\ (~jobs[j].client_phone_revealed /\ jobs'[j].client_phone_revealed)
                       => ArriveJob(j)
            ELSE ~jobs'[j].client_phone_revealed ]_vars

\* a revealed job on which a later operation has changed the status
RevealKeptWitness ==
    \E j \in JobIds :
        /\ jobs[j].client_phone_revealed
        /\ jobs[j].status \in {"on-the-way", "accepted", "completed", "cancelled"}

\* C9: master_arrive on an existing job answers 200, and a second call after
\* it answers 200 with the same contact and leaves status arrived and the
\* reveal flag set, as the first call left them.
ArriveIdempotent ==
    \A j \in JobIds :
        LET first  == master_arrive(j)
            second == master_arrive_on(first.jobs, j)
        IN  /\ first.code = 200
            /\ second.code = 200
            /\ second.contact = first.contact
            /\ first.jobs[j].status = "arrived"
            /\ first.jobs[j].client_phone_revealed
            /\ second.jobs[j].status = first.jobs[j].status
            /\ second.jobs[j].client_phone_revealed = first.jobs[j].client_phone_revealed

\* master_arrive has been called on a job: the second call starts here
ArrivedWitness ==
    \E j \in JobIds :
        /\ jobs[j].status = "arrived"
        /\ jobs[j].master_arrived_at
        /\ jobs[j].client_phone_revealed

\* C10: a card in a master's chat of a job whose contact is not revealed
\* carries neither the client's name nor the client's phone.
ContactGatedOnArrival ==
    \A m \in MasterIds : \A j \in JobIds :
        (cards[m][j] # "none" /\ ~jobs[j].client_phone_revealed) =>
            LET card == show_job_card(jobs[j], TRUE)
            IN  /\ card.client_phone # jobs[j].client_phone
                /\ card.client_name # jobs[j].client_name

\* C11: the row a submission adds is bound to a master the lookup for its
\* category returns and is then accepted; when the lookup returns none the row
\* has no master and is pending.
CreateBindsLookupResult ==
    [][ Len(jobs') > Len(jobs) =>
            LET n     == jobs'[Len(jobs')]
                found == FindAvailableMaster(n.category, DefaultCity)
            IN  /\ n.master_id \in found
                /\ IF n.master_id # NULL
                   THEN n.status = "accepted"
                   ELSE Eligible(n.category, DefaultCity) = {} /\ n.status = "pending" ]_vars

\* one submission found a master, another found none
CreateBothWaysWitness ==
    \E j1, j2 \in JobIds :
        /\ jobs[j1].category = "electrical"
        /\ jobs[j1].status = "accepted"
        /\ jobs[j1].master_id = 1
        /\ jobs[j2].category = "plumbing"
        /\ jobs[j2].status = "pending"
        /\ jobs[j2].master_id = NULL

\* the masters that are active, available, in the city and have the category
\* among their specializations
Qualified(category, city) ==
    { m \in MasterIds :
        /\ masters[m].is_active
        /\ masters[m].terminal_active
        /\ masters[m].city = city
        /\ \E i \in DOMAIN masters[m].specializations :
              masters[m].specializations[i] = category }

\* C12: a lookup returns a master that is active, available, in the city and
\* has the category among its specializations, of the highest rating among
\* those; it returns none exactly when there is no such master.
FindAvailableSound ==
    \A c \in LookupCategories : \A city \in Cities :
        \A r \in FindAvailableMaster(c, city) :
            IF Qualified(c, city) = {}
            THEN r = NULL
            ELSE /\ r \in Qualified(c, city)
                 /\ \A o \in Qualified(c, city) : masters[o].rating <= masters[r].rating

\* C13: a lookup has one possible result for a given directory, whatever the
\* order of the rows.
FindAvailableDeterministic ==
    \A c \in LookupCategories : \A city \in Cities :
        Cardinality(FindAvailableMaster(c, city)) = 1

\* the jobs bound to master m that are in an active status
ActiveJobsOf(m) ==
    { j \in JobIds :
        /\ jobs[j].master_id = m
        /\ jobs[j].status \in {"accepted", "on-the-way", "arrived", "in_progress"} }

\* C14: each master is bound to at most one job in an active status.
OneActiveJobPerMaster ==
    \A m \in MasterIds : Cardinality(ActiveJobsOf(m)) <= 1

\* C15: whatever the state of the notification sink, a submission is answered
\* 200 and adds the row it adds without the sink, and an arrival on an existing
\* job is answered 200 and leaves the job arrived with the reveal flag set.
LifecycleIgnoresSink ==
    /\ \A c \in RequestCategories : \A s \in SinkStates :
          /\ \A r \in process_client_request_sync(c, s) :
                /\ r.code = 200
                /\ Len(r.jobs) = Len(jobs) + 1
          /\ { r.jobs : r \in process_client_request_sync(c, s) }
                = { q.jobs : q \in process_client_request(c) }
    /\ \A j \in JobIds : \A s \in SinkStates :
          LET r == master_arrive_sync(j, s)
          IN  /\ r.code = 200
              /\ r.jobs[j].status = "arrived"
              /\ r.jobs[j].client_phone_revealed
              /\ r.jobs = master_arrive(j).jobs

\* the sink raised when a job was created, and the job is there and arrived
SinkRaisedWitness ==
    \E j \in JobIds : \E i \in DOMAIN sink_calls :
        /\ sink_calls[i].call = "sync_order"
        /\ sink_calls[i].job_id = j
        /\ sink_calls[i].outcome = "raises"
        /\ jobs[j].status = "arrived"
        /\ jobs[j].client_phone_revealed

IsRounded(q, n, d) == 2 * (n - q * d) <= d /\ 2 * (q * d - n) <= d

\* C17: of a paid amount the gateway fee is 2%, the commission 25% of the
\* amount less the gateway fee and the earnings the rest, each rounded to the
\* kopeck; of 1000.00 they are 20.00, 245.00 and 735.00; the transaction of a
\* payment holds this commission and these earnings.
FeeSplitAsSpecified ==
    \A i \in DOMAIN transactions :
        LET t    == transactions[i]
            fees == CalculatePlatformFee(t.amount)
        IN  /\ IsRounded(fees.payment_gateway_fee, 2 * t.amount, 100)
            /\ IsRounded(fees.platform_commission, 25 * (100 * t.amount - 2 * t.amount), 10000)
            /\ IsRounded(fees.master_earnings,
                         100 * (100 * t.amount - 2 * t.amount)
                             - 25 * (100 * t.amount - 2 * t.amount), 10000)
            /\ t.platform_fee = fees.platform_commission
            /\ t.master_earnings = fees.master_earnings
            /\ t.amount = 100000 =>
                  /\ fees.payment_gateway_fee = 2000
                  /\ t.platform_fee = 24500
                  /\ t.master_earnings = 73500

\* a payment of 1000.00 and a payment of an amount with kopecks were settled
FeeSplitWitness ==
    \E i, k \in DOMAIN transactions :
        /\ transactions[i].amount = 100000
        /\ transactions[i].platform_fee = 24500
        /\ transactions[k].amount % 100 # 0
        /\ transactions[k].master_earnings > 0

\* C18: the total price of a quote is not negative and is a multiple of ten.
TotalIsMultipleOfTen ==
    quote # NoQuote => quote.total_price >= 0 /\ quote.total_price % 10 = 0

\* a quote whose price before rounding, 2331 roubles, was no multiple of ten:
\* for one outlet, in the evening, in the Leningradsky district
RoundedQuoteWitness ==
    /\ quote # NoQuote
    /\ factors = [DefaultFactors("electrical") EXCEPT !.outlets = 1,
                      !.time_of_day = "evening", !.district = "leningradsky"]
    /\ quote.subtotal = 185000
    /\ quote.total_price = 2330

\* the price the recorded fields of the quote q give, in roubles:
\* (base + points) * product of the multipliers * (1 - discount percent)
RecordedPrice(q) ==
    LET subtotal == Times(Whole(q.base_price + q.points_price), 1, 100)
        recorded == [name \in DOMAIN q.multipliers |-> <<q.multipliers[name], 100>>]
    IN  Times(ApplyMultipliers(subtotal, recorded, 1), 100 - q.discount.percent, 100)

\* C19: the total price of a quote is the price its recorded base price,
\* points price, multipliers and discount percent give, rounded to ten.
TotalFromRecordedFields ==
    quote # NoQuote => quote.total_price \in RoundToTen(RecordedPrice(quote))

\* the factors among urgency, time of day, district and distance whose value
\* differs from 1
NonUnityFactors(f) ==
    { name \in {"urgency", "time_of_day", "district"} :
          MultiplierOf(f, name)[1] # MultiplierOf(f, name)[2] }
    \cup (IF f.distance_km > 100 THEN {"distance"} ELSE {})

\* C20: the multipliers recorded in a quote are those of the factors that
\* differ from 1, none of them is recorded as 1.00, and for an emergency at
\* night in Svetlogorsk more than 10 km away there are four.
RecordedMultipliersNonUnity ==
    quote # NoQuote =>
        /\ DOMAIN quote.multipliers = NonUnityFactors(factors)
        /\ \A name \in DOMAIN quote.multipliers : quote.multipliers[name] # 100
        /\ ( /\ factors.urgency = "emergency"
             /\ factors.time_of_day = "night"
             /\ factors.district = "svetlogorsk"
             /\ factors.distance_km > 100 )
               => Cardinality(DOMAIN quote.multipliers) = 4

\* the price of the factors f before the volume discount
PriceBeforeDiscount(f) ==
    ApplyMultipliers(Plus(get_base_price(f), calculate_points_price(f)),
                     calculate_multipliers(f), 1)

\* the discount tier of n installation points, in percent
TierPercent(n) ==
    IF n <= 2 THEN 0
    ELSE IF n <= 5 THEN 5
    ELSE IF n <= 10 THEN 10
    ELSE IF n <= 20 THEN 15
    ELSE 20

\* C21: the volume discount of a quote is the tier of the number n of outlets,
\* switches and fixtures of the job: 0% for n <= 2, 5% for 3..5, 10% for
\* 6..10, 15% for 11..20, 20% for n >= 21; and that one tier is what is
\* taken off the price, once.
VolumeDiscountIsTheTier ==
    quote # NoQuote =>
        LET n == factors.outlets + factors.switches + factors.chandeliers
            price == PriceBeforeDiscount(factors)
        IN  /\ quote.discount.percent = TierPercent(n)
            /\ quote.discount.amount \in RoundToCent(Times(price, TierPercent(n), 100))
            /\ quote.total_price \in RoundToTen(Times(price, 100 - TierPercent(n), 100))

\* a quote for 21 points was given, with 20% off
TopTierWitness ==
    /\ quote # NoQuote
    /\ factors.outlets + factors.switches + factors.chandeliers = 21
    /\ quote.discount.percent = 20
    /\ quote.discount.amount > 0

\* C22: the estimate of the example text, asked with the hint electrical,
\* is made for an urgent job (not an emergency) of 3 outlets and 2 switches.
ExampleDerivesUrgentThreeAndTwo ==
    /\ request = [description |-> UrgentExample, category |-> "electrical"]
    /\ quote # NoQuote
    => /\ factors.urgency = "urgent"
       /\ factors.outlets = 3
       /\ factors.switches = 2

\* the text without the urgency word it begins with
WithoutUrgencyWord(description) ==
    IF SubSeq(description, 1, 7) \in {"Srowno ", "seqwas "}
    THEN SubSeq(description, 8, Len(description))
    ELSE description

\* C23: an estimate made for an urgent job is strictly higher than every
\* estimate of the same text without its urgency word, whenever leaving the
\* word out makes the job normal and changes neither the item counts, nor
\* the category, nor the complexity read from the length.
UrgentEstimateIsDearer ==
    request # NoRequest /\ quote # NoQuote /\ factors.urgency = "urgent" =>
        LET plain == estimate_factors(WithoutUrgencyWord(request.description),
                                      request.category)
        IN  /\ plain.urgency = "normal"
            /\ plain.category = factors.category
            /\ plain.outlets = factors.outlets
            /\ plain.switches = factors.switches
            /\ plain.chandeliers = factors.chandeliers
            /\ plain.complexity = factors.complexity
            => \A q \in calculate(plain) : quote.total_price > q.total_price

\* C24: the job is priced as the category of the hint unless the text has a
\* plumbing, appliance or hvac keyword, and as the category of the keyword
\* if it has one: with no keyword every hint among electrical, plumbing,
\* appliance, general, hvac and emergency is priced from its own base
\* rate, and a text with an appliance or hvac keyword is priced as appliance
\* or hvac also when the hint is plumbing.
HintPricedUnlessKeyword ==
    request # NoRequest /\ quote # NoQuote =>
        LET desc_lower == Lower(request.description)
        IN  /\ ( /\ ~AnyIn(PlumbingWords \cup ApplianceWords \cup HvacWords, desc_lower)
                 /\ request.category \in Categories
                 => /\ factors.category = request.category
                    /\ quote.base_price \in
                          RoundToCent(get_base_price(
                              [factors EXCEPT !.category = request.category])) )
            /\ ( AnyIn(ApplianceWords, desc_lower) /\ ~AnyIn(PlumbingWords, desc_lower)
                 => factors.category = "appliance" )
            /\ ( /\ AnyIn(HvacWords, desc_lower)
                 /\ ~AnyIn(PlumbingWords \cup ApplianceWords, desc_lower)
                 => factors.category = "hvac" )

\* C25: a quick price asked for a template without keyword arguments is the
\* quote of the template as the module defines it, whatever calls were made
\* before, with or without keyword arguments.
QuickPriceIsPure ==
    [][ \A name \in DOMAIN QUICK_TEMPLATES :
            GetQuickPrice(name, NoOverrides)
            => quote' \in calculate(QUICK_TEMPLATES[name]) ]_vars

\* C26: a submission that is malformed, its category not one of the service
\* categories or its description shorter than the least length, is rejected
\* and leaves the jobs as they are.
MalformedSubmissionRejected ==
    [][ \A c \in FormCategories, d \in FormDescriptions :
            /\ SubmitForm(c, d)
            /\ (c \notin Categories \/ Len(d) < MinDescription)
            => /\ jobs' = jobs
               /\ \A r \in web_form(c, d) : r.code # 200 ]_vars

\* C27: every lifecycle operation called with a job id the table does not
\* have (assign, set status, depart, arrive, settle) answers with an error
\* and leaves the tables as they are; no transaction is written for it.
UnknownJobIsAnError ==
    [][ \A j \in JobIdInputs \ JobIds :
            /\ \A m \in MasterIds :
                  AssignJob(j, m) => /\ assign_job_to_master(j, m).code # 200
                                     /\ UNCHANGED vars
            /\ \A s \in ValidStatuses :
                  SetJobStatus(j, s) => /\ update_job_status(j, s).code # 200
                                        /\ UNCHANGED vars
            /\ DepartJob(j) => /\ master_depart(j).code # 200
                               /\ UNCHANGED vars
            /\ ArriveJob(j) => /\ master_arrive(j).code # 200
                               /\ UNCHANGED vars
            /\ \A a \in Amounts :
                  SettleJob(j, a) => /\ process_payment(j, a).code # 200
                                     /\ UNCHANGED vars ]_vars

\* the fields of a quote
QuoteFields == {"base_price", "points_price", "subtotal", "total_price",
                "discount", "multipliers"}

\* C28: pricing does not fail: a quote can be computed for every factors and
\* an estimate made for every text and hint asked for; what is returned is a
\* complete quote with a price that is not negative; and a job of a category
\* the price table does not have is priced from the default base price of
\* 1500, raised by a fifth for every level of complexity above the first.
PricingNeverFails ==
    /\ (quote = NoQuote /\ factors # NoFactors => calculate(factors) # {})
    /\ (quote = NoQuote /\ request # NoRequest =>
            estimate_from_description(request.description, request.category) # {})
    /\ (quote # NoQuote =>
            /\ DOMAIN quote = QuoteFields
            /\ quote.total_price >= 0
            /\ quote.base_price > 0
            /\ quote.subtotal >= quote.base_price)
    /\ (quote # NoQuote /\ factors.category \notin Categories =>
            /\ quote.base_price = 150000 + 30000 * (factors.complexity - 1)
            /\ quote.points_price = 0)

\* a job of a category the price table does not have, with an outlet, was
\* priced from the default base price
UnknownCategoryWitness ==
    /\ quote # NoQuote
    /\ factors.category \notin Categories
    /\ factors.outlets > 0
    /\ factors.complexity = 1
    /\ quote.base_price = 150000
    /\ quote.total_price >= 1500

\* C29: the travel of a master is ordered: a job becomes on-the-way only
\* from accepted (a repeated depart leaves it on-the-way), and arrived only
\* after a depart; a job with an arrival time has a departure time and a
\* master; and a completed or cancelled job is not made on-the-way or arrived.
TravelIsOrdered ==
    [][ \A j \in JobIds :
            /\ ( jobs'[j].status = "on-the-way" /\ jobs[j].status # "on-the-way"
                 => jobs[j].status = "accepted" )
            /\ ( jobs'[j].status = "arrived" /\ jobs[j].status # "arrived"
                 => jobs[j].master_departed_at )
            /\ ( jobs'[j].master_arrived_at
                 => jobs'[j].master_departed_at /\ jobs'[j].master_id # NULL )
            /\ ( jobs[j].status \in {"completed", "cancelled"}
                 => jobs'[j].status \notin {"on-the-way", "arrived"} ) ]_vars

\* C30: the hours of an estimate are 1, one more when the text names more
\* than 5 items (outlets, switches and fixtures together, the number the
\* volume discount goes by), and one more when the complexity is 3 or more.
HoursFromItemsAndComplexity ==
    request # NoRequest /\ quote # NoQuote =>
        LET items == factors.outlets + factors.switches + factors.chandeliers
        IN  factors.estimated_hours =
                2 + (IF items > 5 THEN 2 ELSE 0)
                  + (IF factors.complexity >= 3 THEN 2 ELSE 0)

\* two characters are the same letter, capital or not
SameLetter(a, b) ==
    \/ a = b
    \/ a \in DOMAIN Capitals /\ Capitals[a] = b
    \/ b \in DOMAIN Capitals /\ Capitals[b] = a

\* the text has the word in it, in capitals or not
Mentions(word, text) ==
    \E i \in 0..(Len(text) - Len(word)) :
        \A k \in 1..Len(word) :
            SameLetter(SubSeq(text, i + k, i + k), SubSeq(word, k, k))

\* C31: the urgency of an estimate is emergency exactly when the text has an
\* emergency word (ekstrenno, gorit), urgent exactly when it has a word of
\* plain urgency (srochno, seychas) and no emergency word, and normal
\* otherwise; capitals in the text make no difference.
UrgencyFromKeywords ==
    request # NoRequest /\ quote # NoQuote =>
        LET emergency == \E w \in {"&kstrenno", "gorit"} :
                             Mentions(w, request.description)
            generic   == \E w \in {"srowno", "seqwas"} :
                             Mentions(w, request.description)
        IN  factors.urgency = IF emergency THEN "emergency"
                              ELSE IF generic THEN "urgent"
                              ELSE "normal"

\* an estimate was made of a text with a word of plain urgency and a
\* capitalised emergency word, as an emergency
EmergencyOverUrgentWitness ==
    /\ request # NoRequest
    /\ quote # NoQuote
    /\ Len(request.description) >= 13
    /\ SubSeq(request.description, 1, 13) = "srowno Gorit "
    /\ factors.urgency = "emergency"
    /\ quote.multipliers["urgency"] = 200

\* the base rate of a category, 1500 for one the table does not have
BaseRate(category) ==
    IF category \in Categories THEN BASE_PRICES(category) ELSE 1500

\* C32: the base price of a quote is the base rate of the category, times
\* 1 + 0.2 for every level of complexity above the first, then plus 800 for
\* every hour beyond the first, then times 1.15 with materials, 1.30 with
\* high voltage, 1.25 with height work and 1.20 outdoors, in this order;
\* the base rate of a category the table does not have is 1500.
BaseInFixedOrder ==
    quote # NoQuote =>
        LET rate   == Whole(BaseRate(factors.category))
            scaled == Times(rate, 10 + 2 * (factors.complexity - 1), 10)
            extra  == IF factors.estimated_hours > 2
                      THEN 400 * (factors.estimated_hours - 2) ELSE 0
            timed  == Plus(scaled, extra)
            m      == Times(timed, IF factors.materials_needed THEN 115 ELSE 100, 100)
            hv     == Times(m, IF factors.high_voltage THEN 130 ELSE 100, 100)
            hw     == Times(hv, IF factors.height_work THEN 125 ELSE 100, 100)
            od     == Times(hw, IF factors.outdoors THEN 120 ELSE 100, 100)
        IN  quote.base_price \in RoundToCent(od)

\* a quote for work of the highest complexity, two and a half hours and
\* all four flags: 3000 * 1.8 + 1200 = 6600, times 2.2425
AllSurchargesWitness ==
    /\ quote # NoQuote
    /\ factors.category = "hvac"
    /\ factors.complexity = 5
    /\ factors.estimated_hours = 5
    /\ factors.materials_needed /\ factors.high_voltage
    /\ factors.height_work /\ factors.outdoors
    /\ quote.base_price = 1480050

\* C33: a quote for a job of a category other than electrical has no points
\* price, and its total is the total of the same job with no outlets,
\* switches and fixtures.
ItemsCountOnlyForElectrical ==
    quote # NoQuote /\ factors.category # "electrical" =>
        LET bare == [factors EXCEPT !.outlets = 0, !.switches = 0,
                                    !.chandeliers = 0]
        IN  /\ quote.points_price = 0
            /\ \E q \in calculate(bare) : quote.total_price = q.total_price

\* C34: the three parts of the split of a paid amount, each rounded to the
\* kopeck, add up to the amount or to one kopeck more or less, and the
\* earnings are not negative and not more than the amount; the transaction
\* holds these earnings.
SplitAddsUpToTheKopeck ==
    \A i \in DOMAIN transactions :
        LET t    == transactions[i]
            fees == CalculatePlatformFee(t.amount)
            sum  == fees.payment_gateway_fee + fees.platform_commission
                        + t.master_earnings
        IN  /\ t.amount > 0
            /\ t.master_earnings = fees.master_earnings
            /\ sum - t.amount \in {-1, 0, 1}
            /\ t.master_earnings >= 0
            /\ t.master_earnings <= t.amount

\* a payment whose parts add up to a kopeck less than the amount and one
\* whose parts add up to a kopeck more were settled
KopeckLostAndGainedWitness ==
    \E i, k \in DOMAIN transactions :
        /\ transactions[i].amount = 2
        /\ CalculatePlatformFee(2).payment_gateway_fee
              + transactions[i].platform_fee + transactions[i].master_earnings = 1
        /\ transactions[k].amount = FeeBase + 1
        /\ CalculatePlatformFee(FeeBase + 1).payment_gateway_fee
              + transactions[k].platform_fee + transactions[k].master_earnings
              = FeeBase + 2

\* C35: no step of the lifecycle (assign, set status, depart, arrive,
\* settle) changes the client name, the client phone, the category, the
\* text, the address or the price of a job, and no step takes a job out of
\* the table.
LifecycleKeepsTheRequest ==
    [][ /\ Len(jobs') >= Len(jobs)
        /\ \A j \in JobIds :
              /\ jobs'[j].client_name = jobs[j].client_name
              /\ jobs'[j].client_phone = jobs[j].client_phone
              /\ jobs'[j].category = jobs[j].category
              /\ jobs'[j].problem_description = jobs[j].problem_description
              /\ jobs'[j].address = jobs[j].address
              /\ jobs'[j].estimated_price = jobs[j].estimated_price ]_vars

\* a job went from the submission to its payment, and is as it was submitted
SettledAsSubmittedWitness ==
    \E j \in JobIds :
        /\ jobs[j].status = "completed"
        /\ jobs[j].master_id # NULL
        /\ jobs[j].master_departed_at
        /\ jobs[j].master_arrived_at
        /\ TxFor(transactions, j) # {}
        /\ jobs[j].category = "electrical"
        /\ jobs[j].problem_description = "tewet kran"
        /\ jobs[j].address = Address
        /\ jobs[j].estimated_price = 2070

\* C36: every job that is accepted, on-the-way, arrived, in_progress or
\* completed has a master, one of the directory, and every pending job has
\* none.
MasterBoundOncePastPending ==
    \A j \in JobIds :
        /\ jobs[j].status \in {"accepted", "on-the-way", "arrived",
                               "in_progress", "completed"}
           => jobs[j].master_id \in MasterIds
        /\ jobs[j].status = "pending" => jobs[j].master_id = NULL

\* C37: for every job of a master that is accepted, on-the-way, arrived or
\* in_progress, the query for the master's active job returns a job, and
\* the bot lists the job among the master's active ones, on a card with a
\* button.
ActiveJobStaysVisible ==
    \A j \in JobIds :
        /\ jobs[j].master_id \in MasterIds
        /\ jobs[j].status \in {"accepted", "on-the-way", "arrived", "in_progress"}
        => LET m == jobs[j].master_id
           IN  /\ NULL \notin get_active_job(m)
               /\ j \in DOMAIN show_my_jobs(m).active
               /\ show_my_jobs(m).active[j].buttons # {}

\* C38: when the last thing the master bot told a Telegram user is that the
\* registration is complete, the user's /start is answered with the menu of
\* the terminal.
RegisteredUserGetsTheMenu ==
    [][ \A u \in TelegramUsers :
            Session(u).reply = "registration complete" /\ Start(u)
            => SessionOf(master_bot', u).reply = "menu" ]_vars

\* C39: a toggle of the terminal that succeeds inverts the flag the
\* directory holds for the master, and the flag the bot has cached is
\* afterwards the one the directory holds.
ToggleInvertsTheStoredFlag ==
    [][ \A u \in TelegramUsers :
            toggle_terminal(u).code = 200 /\ ToggleTerminal(u)
            => LET m == Session(u).master.id
               IN  /\ masters'[m].terminal_active = ~masters[m].terminal_active
                   /\ SessionOf(master_bot', u).master.terminal_active
                          = masters'[m].terminal_active ]_vars

\* C40: a dialogue of the client bot in which every answer passed the bot's
\* check and the user confirmed ends with the job created: the API does not
\* reject what the bot submits.
ConfirmedDialogueIsAccepted ==
    [][ \A answer \in AnswersTyped :
            /\ Lower(answer) \in {"da", "yes", "lf"}
            /\ Confirm(answer)
            => client_bot'.reply = "job created" ]_vars

====
